---- MODULE Spec2Model ----
(***************************************************************************)
(* Model of the BD2 MOD packer: BD2ResourceManager (version tracking,      *)
(* change detection, task planning, download and patch phases) driven by   *)
(* BD2MainProgram.run, over a bounded replacement tree and state document. *)
(***************************************************************************)
EXTENDS Integers, Sequences, FiniteSets, TLC

(* ------------------------------ bounds -------------------------------- *)
\* largest modification time (seconds) the environment may stamp on a node
MaxTime == 2
\* largest remote build version the version provider may return
MaxVersion == 2
\* number of environment events (file edits, remote releases, ...) per behaviour
MaxEdits == 2

(* ----------------------------- universe ------------------------------- *)
\* leaf directories <workspace>/<char>/<costume>/<type>, in iterdir order
LeafOrder == <<"Hero/CostumeA/IDLE", "Hero/CostumeB/CUTSCENE", "Mage/Robe/IDLE">>
Leaves == {LeafOrder[i] : i \in 1..Len(LeafOrder)}
\* the leaf whose subtree the environment may populate two levels deep
DeepLeaves == {LeafOrder[1]}
\* names of regular files directly inside a leaf
FileNames == {"char.skel"}
\* the sub-directory a leaf may hold (the mod folder) and the files inside it
SubName == "mod"
DeepNames == {"a.atlas", "b.png"}
ChildNames == FileNames \cup {SubName}

Times == 0..MaxTime
Versions == 1..MaxVersion
Absent == -1

\* the workspace of the run (replace_dir_name) and another author's workspace
ThisWs == "replace"
OtherWs == "other"
Workspaces == {ThisWs, OtherWs}

NoLeaf == [exists |-> FALSE]
NoSub == [exists |-> FALSE]
NoSnap == [stored |-> FALSE]
NoEntry == [present |-> FALSE]
NoSummary == [ran |-> FALSE]
NoFlat == [present |-> FALSE]

VARIABLES
    fs,         \* replacement tree: leaf -> directory contents
    remote,     \* version the version provider currently returns
    doc,        \* data.json
    pc,         \* position of BD2MainProgram.run
    summary,    \* UpdateSummary of the run's check (plus needs_update)
    tasks,      \* replace_tasks of the current run
    downloads,  \* data names handed to download_data, in order
    patches,    \* target_dirs handed to process_multiple_replace_dirs, in order
    rc,         \* return code of the run (-1: none yet)
    edits,      \* number of environment events so far
    since,      \* kinds of environment events since the latest check
    base,       \* the tree as it was when the stored snapshot was written
    last,       \* outcome of the latest check, kept across runs
    before,     \* what the check just made started from (kept while pc = "checked")
    io,         \* loads and writes of data.json made by the run
    table,      \* CharacterData rows parsed from the reference page
    query,      \* the (character, costume) pair asked for
    outcome,    \* what get_idle / get_cutscene ended with
    catalog,    \* the bundles array of the catalog document
    ident,      \* the identifier handed to the catalog lookup
    resolved,   \* what get_resource_bundle_name_and_hash ended with
    trs,        \* physical rows of a table body: cells with text and rowspan
    matrix,     \* what _build_table_matrix returned
    lookups,    \* per leaf, how its lookup ends in a planning pass
    override,   \* the specific_dirs argument of a planning pass
    cursor,     \* leaves the planning pass has gone through
    sources,    \* the replacement directories of a target group
    replaced,   \* per asset of the bundle, where its replacement came from
    runs,       \* two checks sharing data.json: position and in-memory document
    writeLog,   \* the writes of data.json by those checks, in order
    workspaces, \* project.mod_workspaces of the configuration
    wsDirs,     \* workspaces whose directory exists on disk
    ret         \* the last registry call and what it returned

\* the variables of the update run
runVars == <<fs, remote, doc, pc, summary, tasks, downloads, patches, rc, edits, since,
             base, last, before, io>>
\* the variables of the lookup, table, planning and patch components
partVars == <<table, query, outcome, catalog, ident, resolved, trs, matrix,
              lookups, override, cursor, sources, replaced,
              runs, writeLog, workspaces, wsDirs, ret>>
vars == <<fs, remote, doc, pc, summary, tasks, downloads, patches, rc, edits, since,
          base, last, before, io, table, query, outcome, catalog, ident, resolved,
          trs, matrix, lookups, override, cursor, sources, replaced,
          runs, writeLog, workspaces, wsDirs, ret>>

(* ------------------------------ helpers ------------------------------- *)
Max(a, b) == IF a >= b THEN a ELSE b
Abs(x) == IF x < 0 THEN -x ELSE x

RECURSIVE SetMax(_, _)
SetMax(S, least) ==
    IF S = {} THEN least
    ELSE LET x == CHOOSE y \in S : TRUE IN SetMax(S \ {x}, Max(least, x))

\* mtimes of the regular files of a name -> mtime-or-Absent map
PresentTimes(files) == {files[n] : n \in {m \in DOMAIN files : files[m] # Absent}}

IsDigit(c) == c \in {"0", "1", "2", "3", "4", "5", "6", "7", "8", "9"}
DigitValue(c) ==
    CASE c = "0" -> 0 [] c = "1" -> 1 [] c = "2" -> 2 [] c = "3" -> 3 [] c = "4" -> 4
      [] c = "5" -> 5 [] c = "6" -> 6 [] c = "7" -> 7 [] c = "8" -> 8 [] OTHER -> 9

RECURSIVE DigitsToNat(_, _)
DigitsToNat(s, acc) ==
    IF s = <<>> THEN acc ELSE DigitsToNat(Tail(s), 10 * acc + DigitValue(Head(s)))

StrValue(s) == [type |-> "str", s |-> s]
IntValue(n) == [type |-> "int", n |-> n]

DigitChar(d) ==
    CASE d = 0 -> "0" [] d = 1 -> "1" [] d = 2 -> "2" [] d = 3 -> "3" [] d = 4 -> "4"
      [] d = 5 -> "5" [] d = 6 -> "6" [] d = 7 -> "7" [] d = 8 -> "8" [] OTHER -> "9"

RECURSIVE NatToDigits(_)
NatToDigits(n) ==
    IF n < 10 THEN <<DigitChar(n)>> ELSE NatToDigits(n \div 10) \o <<DigitChar(n % 10)>>

\* f"{value}" of an identifier: decimal digits of an int, the text of a str
FormatValue(v) ==
    IF v.type = "int"
    THEN (IF v.n < 0 THEN <<"-">> \o NatToDigits(0 - v.n) ELSE NatToDigits(v.n))
    ELSE v.s

(* ---------------------- filesystem observations ----------------------- *)
\* _get_directory_mtime applied to the sub-directory of a leaf
SubMtime(sub) == SetMax(PresentTimes(sub.files), sub.own)

\* every regular file beneath the leaf, at any depth (rglob + is_file)
AllFileTimes(d) ==
    PresentTimes(d.files) \cup (IF d.sub.exists THEN PresentTimes(d.sub.files) ELSE {})

GetDirectoryMtime(d) ==
    IF ~d.exists THEN 0 ELSE SetMax(AllFileTimes(d), d.own)

\* _get_subfiles_info: immediate children -> mtime (Absent when not listed)
GetSubfilesInfo(d) ==
    [c \in ChildNames |->
        IF ~d.exists THEN Absent
        ELSE IF c = SubName
             THEN (IF d.sub.exists THEN SubMtime(d.sub) ELSE Absent)
             ELSE d.files[c]]

\* variant: only a missing directory counts as empty
IsDirectoryEmpty_MissingOnly(d) == ~d.exists

IsDirectoryEmpty(d) ==
    IF ~d.exists THEN TRUE ELSE AllFileTimes(d) = {}

\* _scan_replace_directories: existing third-level directories, discovery order
ScanReplaceDirectories(tree) == SelectSeq(LeafOrder, LAMBDA l : tree[l].exists)

(* ---------------------------- state store ----------------------------- *)
EmptyDirs == [l \in Leaves |-> NoSnap]
EmptyAuthors == [w \in Workspaces |-> NoEntry]
MakeEntry(v, u, dirs) == [present |-> TRUE, version |-> v, updateTime |-> u, dirs |-> dirs]
AuthorsDoc(authors) == [shape |-> "authors", flat |-> NoFlat, authors |-> authors]
FlatDoc(v, u, dirs) ==
    [shape |-> "flat",
     flat |-> [present |-> TRUE, version |-> v, updateTime |-> u, replaceDir |-> dirs],
     authors |-> EmptyAuthors]
MissingDoc == [shape |-> "missing", flat |-> NoFlat, authors |-> EmptyAuthors]
CorruptDoc == [shape |-> "corrupt", flat |-> NoFlat, authors |-> EmptyAuthors]

\* _save_data_json: full rewrite of the document with the given authors map
SaveDataJson(authors) == AuthorsDoc(authors)

\* variant: the migrated document is handed back but not written
LoadDataJson_NoSave(d) ==
    CASE d.shape = "flat" ->
            [data |-> [EmptyAuthors EXCEPT ![ThisWs] =
                          MakeEntry(d.flat.version, d.flat.updateTime, d.flat.replaceDir)],
             file |-> d, writes |-> 0]
      [] d.shape = "authors" -> [data |-> d.authors, file |-> d, writes |-> 0]
      [] OTHER -> [data |-> EmptyAuthors, file |-> d, writes |-> 0]

\* _load_data_json: the authors map handed to the caller, the file afterwards
\* and the writes the load made
LoadDataJson(d) ==
    CASE d.shape = "missing" -> [data |-> EmptyAuthors, file |-> d, writes |-> 0]
      [] d.shape = "corrupt" -> [data |-> EmptyAuthors, file |-> d, writes |-> 0]
      [] d.shape = "flat" ->
            LET migrated == [EmptyAuthors EXCEPT ![ThisWs] =
                                MakeEntry(d.flat.version, d.flat.updateTime, d.flat.replaceDir)]
            IN [data |-> migrated, file |-> SaveDataJson(migrated), writes |-> 1]
      [] OTHER -> [data |-> d.authors, file |-> d, writes |-> 0]

EntryVersion(e) == IF e.present THEN e.version ELSE 0
EntryUpdateTime(e) == IF e.present THEN e.updateTime ELSE 0
EntryDirs(e) == IF e.present THEN e.dirs ELSE EmptyDirs

\* what a load of the document would report for a workspace
StoredEntry(d, w) == LoadDataJson(d).data[w]
StoredVersion(d, w) == EntryVersion(StoredEntry(d, w))
StoredUpdateTime(d, w) == EntryUpdateTime(StoredEntry(d, w))
StoredDirs(d, w) == EntryDirs(StoredEntry(d, w))

(* -------------------------- change detection -------------------------- *)
\* tolerated drift of modification times, in seconds
Tolerance == 1

\* variant: the snapshot records the directory's own mtime only
MakeSnapshot_OwnOnly(d) ==
    [stored |-> TRUE, mtime |-> IF d.exists THEN d.own ELSE 0, subfile |-> GetSubfilesInfo(d)]

MakeSnapshot(d) ==
    [stored |-> TRUE, mtime |-> GetDirectoryMtime(d), subfile |-> GetSubfilesInfo(d)]

\* variant: children that disappeared are not looked for
SubfilesChanged_NoDeletion(current, existing) ==
    \E c \in ChildNames :
        /\ current[c] # Absent
        /\ \/ existing[c] = Absent
           \/ Abs(current[c] - existing[c]) > Tolerance

\* the per-leaf comparison of check_version_and_updates against a stored entry
SubfilesChanged(current, existing) ==
    \/ \E c \in ChildNames :
          /\ current[c] # Absent
          /\ \/ existing[c] = Absent
             \/ Abs(current[c] - existing[c]) > Tolerance
    \/ \E c \in ChildNames : existing[c] # Absent /\ current[c] = Absent

\* variant: only the aggregate mtime is compared
LeafNeedsUpdate_AggregateOnly(d, existing) ==
    IF ~existing.stored THEN TRUE
    ELSE Abs(GetDirectoryMtime(d) - existing.mtime) > Tolerance

LeafNeedsUpdate(d, existing) ==
    IF ~existing.stored THEN TRUE
    ELSE IF Abs(GetDirectoryMtime(d) - existing.mtime) > Tolerance THEN TRUE
    ELSE SubfilesChanged(GetSubfilesInfo(d), existing.subfile)

FetchFailedSummary(oldV) ==
    [ran |-> TRUE, fetched |-> FALSE, needs_update |-> TRUE, version_changed |-> FALSE,
     old_version |-> oldV, new_version |-> 0, replace_dirs_to_update |-> <<>>,
     total_replace_dirs |-> 0]

\* variant: the version branch does not touch the author's entry
WithVersion_Skip(authors, w, serverVersion) == authors

\* variant: the version branch never lowers the stored version
WithVersion_Max(authors, w, serverVersion) ==
    [authors EXCEPT ![w] = MakeEntry(Max(serverVersion, EntryVersion(authors[w])),
                                     serverVersion, EntryDirs(authors[w]))]

\* the version branch: the author's entry gets the server version, dirs are kept
WithVersion(authors, w, serverVersion) ==
    [authors EXCEPT ![w] = MakeEntry(serverVersion, serverVersion, EntryDirs(authors[w]))]

\* variant: the final write stores the fresh snapshots under every author
WithDirs_EveryAuthor(authors, w, currentVersion, currentUpdateTime, updatedDirs) ==
    [x \in Workspaces |->
        IF authors[x].present THEN [authors[x] EXCEPT !.dirs = updatedDirs]
        ELSE IF x = w THEN MakeEntry(currentVersion, currentUpdateTime, updatedDirs)
        ELSE authors[x]]

\* variant: the final write keeps the snapshots it loaded
WithDirs_Stale(authors, w, currentVersion, currentUpdateTime, updatedDirs) ==
    LET entry == IF authors[w].present THEN authors[w]
                 ELSE MakeEntry(currentVersion, currentUpdateTime, EmptyDirs)
    IN [authors EXCEPT ![w] = entry]

\* the final write: the author's entry gets the fresh snapshots
WithDirs(authors, w, currentVersion, currentUpdateTime, updatedDirs) ==
    LET entry == IF authors[w].present THEN authors[w]
                 ELSE MakeEntry(currentVersion, currentUpdateTime, EmptyDirs)
    IN [authors EXCEPT ![w] = [entry EXCEPT !.dirs = updatedDirs]]

\* variant: the version and the snapshots go out in one write
StateWrites_Once(versionChanged, needsUpdate) == IF needsUpdate THEN 1 ELSE 0

\* the _save_data_json calls of check_version_and_updates: one in the version
\* branch, one at the end when anything needs an update
StateWrites(versionChanged, needsUpdate) ==
    (IF versionChanged THEN 1 ELSE 0) + (IF needsUpdate THEN 1 ELSE 0)

\* check_version_and_updates for workspace w: the summary, the file afterwards
\* and the loads and writes of the file it made
CheckResult(d, tree, serverVersion, fetchOK, w) ==
    LET loaded == LoadDataJson(d)
        authors == loaded.data
        cur == authors[w]
        currentVersion == EntryVersion(cur)
        currentUpdateTime == EntryUpdateTime(cur)
        versionChanged == serverVersion # currentVersion \/ serverVersion # currentUpdateTime
        authors1 == IF versionChanged THEN WithVersion(authors, w, serverVersion) ELSE authors
        file1 == IF versionChanged THEN SaveDataJson(authors1) ELSE loaded.file
        scanned == ScanReplaceDirectories(tree)
        existingMap == EntryDirs(cur)
        dirsToUpdate == SelectSeq(scanned, LAMBDA l : LeafNeedsUpdate(tree[l], existingMap[l]))
        updatedDirs == [l \in Leaves |-> IF tree[l].exists THEN MakeSnapshot(tree[l]) ELSE NoSnap]
        deleted == \E l \in Leaves : existingMap[l].stored /\ ~tree[l].exists
        needsUpdate == versionChanged \/ Len(dirsToUpdate) > 0 \/ deleted
        authors2 == WithDirs(authors1, w, currentVersion, currentUpdateTime, updatedDirs)
        file2 == IF needsUpdate THEN SaveDataJson(authors2) ELSE file1
    IN IF ~fetchOK
       THEN [summary |-> FetchFailedSummary(currentVersion), file |-> loaded.file,
             io |-> [loads |-> 1, migrations |-> loaded.writes, writes |-> 0]]
       ELSE [summary |-> [ran |-> TRUE, fetched |-> TRUE, needs_update |-> needsUpdate,
                          version_changed |-> versionChanged,
                          old_version |-> currentVersion, new_version |-> serverVersion,
                          replace_dirs_to_update |-> dirsToUpdate,
                          total_replace_dirs |-> Len(scanned)],
             file |-> file2,
             io |-> [loads |-> 1, migrations |-> loaded.writes,
                     writes |-> StateWrites(versionChanged, needsUpdate)]]

(* ------------------------------ planning ------------------------------ *)
\* what the lookup (character table, then catalog) yields for a leaf
NoRes == [found |-> FALSE]
CatalogEntries ==
    { [found |-> TRUE, id |-> IntValue(1001), name |-> "common-x.bundle",
       hash |-> <<"a", "b", "c">>],
      [found |-> TRUE, id |-> IntValue(1002), name |-> "common-y.bundle",
       hash |-> <<"d", "e", "f">>] }
Resolutions == CatalogEntries \cup {NoRes}
AllResMaps == [Leaves -> Resolutions]

\* variant: the identifier is left out of the path
TargetDir_HashOnly(id, hash) == <<"target", "/">> \o hash \o <<"/", "__data">>

\* target_dir = f"{target root}/{identifier}/{hash}/__data"
TargetDir(id, hash) ==
    <<"target", "/">> \o FormatValue(id) \o <<"/">> \o hash \o <<"/", "__data">>

\* the specific_dirs argument: absent, or the list of changed leaves
NoOverride == [given |-> FALSE, dirs |-> <<>>]
Override(dirs) == [given |-> TRUE, dirs |-> dirs]
\* Python truthiness of specific_dirs
Truthy(specific) == specific.given /\ Len(specific.dirs) > 0

SeqRange(q) == {q[i] : i \in 1..Len(q)}

\* _create_replace_task: a one-element list, or no task
CreateReplaceTask(l, r, shouldExecute) ==
    IF ~r.found THEN <<>>
    ELSE << [replace_dir |-> l, data_name |-> r.name, value |-> r.id, hash_id |-> r.hash,
             target_dir |-> TargetDir(r.id, r.hash), should_execute |-> shouldExecute] >>

RECURSIVE CollectTasks(_, _, _, _)
CollectTasks(order, tree, specific, res) ==
    IF order = <<>> THEN <<>>
    ELSE LET l == Head(order)
             rest == CollectTasks(Tail(order), tree, specific, res)
             shouldExecute == IF Truthy(specific) THEN l \in SeqRange(specific.dirs) ELSE TRUE
         IN IF ~tree[l].exists \/ IsDirectoryEmpty(tree[l]) THEN rest
            ELSE CreateReplaceTask(l, res[l], shouldExecute) \o rest

\* variant: the second pass is left out
PropagateCoTargets_None(ts) == ts

\* variant: one executable task makes every task executable
PropagateCoTargets_All(ts) ==
    [i \in 1..Len(ts) |->
        IF \E j \in 1..Len(ts) : ts[j].should_execute
        THEN [ts[i] EXCEPT !.should_execute = TRUE]
        ELSE ts[i]]

\* second pass of the incremental plan: tasks sharing an executable target
PropagateCoTargets(ts) ==
    LET executableTargets == {ts[i].target_dir : i \in {j \in 1..Len(ts) : ts[j].should_execute}}
    IN [i \in 1..Len(ts) |->
          IF ~ts[i].should_execute /\ ts[i].target_dir \in executableTargets
          THEN [ts[i] EXCEPT !.should_execute = TRUE]
          ELSE ts[i]]

BuildReplaceMapping(tree, specific, res) ==
    LET ts == CollectTasks(LeafOrder, tree, specific, res)
    IN IF Truthy(specific) THEN PropagateCoTargets(ts) ELSE ts

(* ------------------------- download and patch ------------------------- *)
ExecutableTasks(ts) == SelectSeq(ts, LAMBDA t : t.should_execute)

RECURSIVE Dedup(_, _)
\* keys of a list in order of first appearance
Dedup(q, seen) ==
    IF q = <<>> THEN <<>>
    ELSE IF Head(q) \in seen THEN Dedup(Tail(q), seen)
    ELSE <<Head(q)>> \o Dedup(Tail(q), seen \cup {Head(q)})

\* _download_resources: distinct data names of the executable tasks
UniqueResources(ts) ==
    LET ex == ExecutableTasks(ts)
    IN Dedup([i \in 1..Len(ex) |-> ex[i].data_name], {})

\* variant: every executable task is a group of its own
TargetGroups_PerTask(ts) ==
    LET ex == ExecutableTasks(ts)
    IN [k \in 1..Len(ex) |->
          [target_dir |-> ex[k].target_dir, bundle |-> ex[k].data_name,
           replace_dirs |-> <<ex[k].replace_dir>>]]

\* _process_unity_resources: target groups in order of first appearance
TargetGroups(ts) ==
    LET ex == ExecutableTasks(ts)
        keys == Dedup([i \in 1..Len(ex) |-> ex[i].target_dir], {})
    IN [k \in 1..Len(keys) |->
          LET group == SelectSeq(ex, LAMBDA t : t.target_dir = keys[k])
          IN [target_dir |-> keys[k],
              bundle |-> group[1].data_name,
              replace_dirs |-> [i \in 1..Len(group) |-> group[i].replace_dir]]]

\* variant: the loop carries on after a failing unit
Attempted_Continue(units, failAt) == units

\* a loop that returns at the first failing unit: the units it reached
\* (failAt = 0: no unit fails)
Attempted(units, failAt) ==
    IF failAt = 0 THEN units ELSE SubSeq(units, 1, failAt)

(* ------------------------- environment events ------------------------- *)
NoTree == [l \in Leaves |-> NoLeaf]

\* The user edits the replacement tree, the provider publishes a build, the
\* state file gets damaged; all of it between runs of the program.
EnvStep(kind) ==
    /\ pc = "idle"
    /\ edits < MaxEdits
    /\ edits' = edits + 1
    /\ since' = since \cup {kind}
    /\ UNCHANGED <<pc, summary, tasks, downloads, patches, rc, last, before, io>>
    /\ UNCHANGED partVars

EmptyLeaf(t) ==
    [exists |-> TRUE, own |-> t, files |-> [n \in FileNames |-> Absent], sub |-> NoSub]
EmptySub(t) == [exists |-> TRUE, own |-> t, files |-> [n \in DeepNames |-> Absent]]

WriteFile(ls) ==
    \E l \in ls, n \in FileNames, t \in Times :
        /\ fs[l].exists /\ fs[l].files[n] # t
        /\ fs' = [fs EXCEPT ![l].files[n] = t]
        /\ EnvStep("fs") /\ UNCHANGED <<remote, doc, base>>

RemoveFile(ls) ==
    \E l \in ls, n \in FileNames :
        /\ fs[l].exists /\ fs[l].files[n] # Absent
        /\ fs' = [fs EXCEPT ![l].files[n] = Absent]
        /\ EnvStep("fs") /\ UNCHANGED <<remote, doc, base>>

CreateLeaf(ls) ==
    \E l \in ls :
        /\ ~fs[l].exists
        /\ fs' = [fs EXCEPT ![l] = EmptyLeaf(0)]
        /\ EnvStep("fs") /\ UNCHANGED <<remote, doc, base>>

DeleteLeaf(ls) ==
    \E l \in ls :
        /\ fs[l].exists
        /\ fs' = [fs EXCEPT ![l] = NoLeaf]
        /\ EnvStep("fs") /\ UNCHANGED <<remote, doc, base>>

TouchLeaf(ls) ==
    \E l \in ls, t \in Times :
        /\ fs[l].exists /\ fs[l].own # t
        /\ fs' = [fs EXCEPT ![l].own = t]
        /\ EnvStep("fs") /\ UNCHANGED <<remote, doc, base>>

MakeSub(ls) ==
    \E l \in ls, t \in Times :
        /\ fs[l].exists /\ ~fs[l].sub.exists
        /\ fs' = [fs EXCEPT ![l].sub = EmptySub(t)]
        /\ EnvStep("fs") /\ UNCHANGED <<remote, doc, base>>

RemoveSub(ls) ==
    \E l \in ls :
        /\ fs[l].exists /\ fs[l].sub.exists
        /\ fs' = [fs EXCEPT ![l].sub = NoSub]
        /\ EnvStep("fs") /\ UNCHANGED <<remote, doc, base>>

TouchSub(ls) ==
    \E l \in ls, t \in Times :
        /\ fs[l].exists /\ fs[l].sub.exists /\ fs[l].sub.own # t
        /\ fs' = [fs EXCEPT ![l].sub.own = t]
        /\ EnvStep("fs") /\ UNCHANGED <<remote, doc, base>>

WriteDeepFile(ls) ==
    \E l \in ls, n \in DeepNames, t \in Times :
        /\ fs[l].exists /\ fs[l].sub.exists /\ fs[l].sub.files[n] # t
        /\ fs' = [fs EXCEPT ![l].sub.files[n] = t]
        /\ EnvStep("fs") /\ UNCHANGED <<remote, doc, base>>

RemoveDeepFile(ls) ==
    \E l \in ls, n \in DeepNames :
        /\ fs[l].exists /\ fs[l].sub.exists /\ fs[l].sub.files[n] # Absent
        /\ fs' = [fs EXCEPT ![l].sub.files[n] = Absent]
        /\ EnvStep("fs") /\ UNCHANGED <<remote, doc, base>>

\* the version provider starts returning another build number
Release ==
    \E v \in Versions :
        /\ v # remote
        /\ remote' = v
        /\ EnvStep("remote") /\ UNCHANGED <<fs, doc, base>>

\* data.json is left unparseable (truncated write, manual edit)
DamageDoc ==
    /\ doc.shape \notin {"missing", "corrupt"}
    /\ doc' = CorruptDoc
    /\ base' = NoTree
    /\ EnvStep("doc") /\ UNCHANGED <<fs, remote>>

(* ------------------------------ the run ------------------------------- *)
NoIO == [loads |-> 0, migrations |-> 0, writes |-> 0]
NoLast == [ran |-> FALSE, fetched |-> FALSE, version_changed |-> FALSE, dirs_changed |-> FALSE]
Outcome(sm) ==
    [ran |-> TRUE, fetched |-> sm.fetched, version_changed |-> sm.version_changed,
     dirs_changed |-> sm.replace_dirs_to_update # <<>>]
NoBefore ==
    [dirs |-> EmptyDirs, tree |-> NoTree, last |-> NoLast, since |-> {}, doc |-> MissingDoc]

\* BD2MainProgram.run, step 1: manager.check_version_and_updates()
Check(fetchOutcomes) ==
    /\ pc = "idle"
    /\ \E ok \in fetchOutcomes :
          LET r == CheckResult(doc, fs, remote, ok, ThisWs)
          IN /\ summary' = r.summary
             /\ doc' = r.file
             /\ base' = IF r.summary.fetched /\ r.summary.needs_update THEN fs ELSE base
             /\ last' = Outcome(r.summary)
             /\ io' = r.io
    /\ before' = [dirs |-> StoredDirs(doc, ThisWs), tree |-> base,
                  last |-> last, since |-> since, doc |-> doc]
    /\ pc' = "checked"
    /\ since' = {}
    /\ UNCHANGED <<fs, remote, tasks, downloads, patches, rc, edits>>
    /\ UNCHANGED partVars

\* variant: every run that needs an update goes on to process_updates
Processes_AnyUpdate(sm) == sm.needs_update

\* BD2MainProgram.run: which summaries lead to manager.process_updates
Processes(sm) ==
    sm.needs_update /\ (sm.version_changed \/ Len(sm.replace_dirs_to_update) > 0)

\* BD2MainProgram.run returning 0 without calling process_updates
SkipProcessing ==
    /\ pc = "checked"
    /\ ~Processes(summary)
    /\ pc' = "done"
    /\ rc' = 0
    /\ before' = NoBefore
    /\ UNCHANGED <<fs, remote, doc, summary, tasks, downloads, patches, edits, since, base, last, io>>
    /\ UNCHANGED partVars

\* process_updates up to the task summary loop
Plan(resMaps) ==
    /\ pc = "checked"
    /\ Processes(summary)
    /\ \E res \in resMaps :
          LET specific == IF summary.version_changed THEN NoOverride
                          ELSE Override(summary.replace_dirs_to_update)
              ts == BuildReplaceMapping(fs, specific, res)
          IN /\ tasks' = ts
             /\ IF ts = <<>> \/ ~ts[1].should_execute
                THEN pc' = "done" /\ rc' = 0
                ELSE /\ pc' = IF summary.version_changed THEN "download" ELSE "patch"
                     /\ rc' = rc
    /\ before' = NoBefore
    /\ UNCHANGED <<fs, remote, doc, summary, downloads, patches, edits, since, base, last, io>>
    /\ UNCHANGED partVars

\* process_updates step 2: _download_resources (full path only)
Download(mayFail) ==
    /\ pc = "download"
    /\ LET units == UniqueResources(tasks)
       IN \E failAt \in 0..(IF mayFail THEN Len(units) ELSE 0) :
             /\ downloads' = Attempted(units, failAt)
             /\ IF failAt = 0
                THEN pc' = "patch" /\ rc' = rc
                ELSE pc' = "done" /\ rc' = 1
    /\ UNCHANGED <<fs, remote, doc, summary, tasks, patches, edits, since, base, last, before, io>>
    /\ UNCHANGED partVars

\* process_updates steps 3 and 4: _process_unity_resources, then the READMEs
Patch(mayFail) ==
    /\ pc = "patch"
    /\ LET units == TargetGroups(tasks)
       IN \E failAt \in 0..(IF mayFail THEN Len(units) ELSE 0) :
             /\ patches' = [i \in 1..Len(Attempted(units, failAt)) |->
                              [target_dir |-> units[i].target_dir,
                               bundle |-> units[i].bundle,
                               replace_dirs |-> units[i].replace_dirs,
                               ok |-> (i # failAt)]]
             /\ rc' = IF failAt = 0 THEN 0 ELSE 1
    /\ pc' = "done"
    /\ UNCHANGED <<fs, remote, doc, summary, tasks, downloads, edits, since, base, last, before, io>>
    /\ UNCHANGED partVars

\* the run has returned; its summary, task list and manager are dropped
EndRun ==
    /\ pc = "done"
    /\ pc' = "idle"
    /\ tasks' = <<>> /\ downloads' = <<>> /\ patches' = <<>>
    /\ summary' = NoSummary
    /\ rc' = -1
    /\ io' = NoIO
    /\ UNCHANGED <<fs, remote, doc, edits, since, base, before, last>>
    /\ UNCHANGED partVars

(* ------------------------ the components at rest --------------------- *)
Pending == [kind |-> "pending"]
NoQuery == [character |-> <<>>, costume |-> <<>>]
NoIdent == [type |-> "str", s |-> <<>>]

lookupVars == <<table, query, outcome>>
catalogVars == <<catalog, ident, resolved>>
matrixVars == <<trs, matrix>>
planVars == <<lookups, override, cursor>>
patchVars == <<sources, replaced>>
concVars == <<runs, writeLog>>
registryVars == <<workspaces, wsDirs, ret>>

LookupIdle == table = <<>> /\ query = NoQuery /\ outcome = Pending
CatalogIdle ==
    catalog = [present |-> FALSE, bundles |-> <<>>] /\ ident = NoIdent /\ resolved = Pending
MatrixIdle == trs = <<>> /\ matrix = <<>>
NoPlanInput == [look |-> Pending, bundle |-> [kind |-> "absent"]]
PlanIdle == lookups = [l \in Leaves |-> NoPlanInput] /\ override = NoOverride /\ cursor = 0
PatchIdle == sources = <<>> /\ replaced = <<>>
ConcIdle == runs = <<>> /\ writeLog = <<>>
NoCall == [op |-> "none"]
RegistryIdle == workspaces = <<>> /\ wsDirs = {} /\ ret = NoCall

\* no update run in progress: an empty tree, no state file
RunIdle ==
    /\ fs = NoTree /\ remote = 1 /\ doc = MissingDoc /\ base = NoTree
    /\ pc = "idle" /\ summary = NoSummary
    /\ tasks = <<>> /\ downloads = <<>> /\ patches = <<>>
    /\ rc = -1 /\ edits = 0 /\ since = {}
    /\ last = NoLast /\ before = NoBefore /\ io = NoIO

(* --------------------------- specifications --------------------------- *)
FileLeaf(own, t) ==
    [exists |-> TRUE, own |-> own, files |-> [n \in FileNames |-> t], sub |-> NoSub]
DeepLeaf(own, t, subOwn, deep) ==
    [exists |-> TRUE, own |-> own, files |-> [n \in FileNames |-> t],
     sub |-> [exists |-> TRUE, own |-> subOwn, files |-> deep]]

InitTree == [l \in Leaves |-> FileLeaf(0, 0)]
SnapshotOf(tree) == [l \in Leaves |-> IF tree[l].exists THEN MakeSnapshot(tree[l]) ELSE NoSnap]

InitCommon ==
    /\ remote \in Versions
    /\ pc = "idle"
    /\ summary = NoSummary
    /\ tasks = <<>> /\ downloads = <<>> /\ patches = <<>>
    /\ rc = -1
    /\ edits = 0
    /\ since = {}
    /\ last = NoLast
    /\ before = NoBefore
    /\ io = NoIO
    /\ LookupIdle /\ CatalogIdle /\ MatrixIdle /\ PlanIdle /\ PatchIdle /\ ConcIdle /\ RegistryIdle

\* a fresh install, a legacy flat document, or a document of another author
Init ==
    /\ fs = InitTree
    /\ \/ doc = MissingDoc /\ base = NoTree
       \/ doc = FlatDoc(1, 1, SnapshotOf(InitTree)) /\ base = InitTree
       \/ /\ doc = AuthorsDoc([EmptyAuthors EXCEPT ![OtherWs] = MakeEntry(1, 1, EmptyDirs)])
          /\ base = NoTree
    /\ InitCommon

Next ==
    \/ WriteFile(Leaves)
    \/ RemoveFile(Leaves)
    \/ CreateLeaf(Leaves)
    \/ DeleteLeaf(Leaves)
    \/ Release
    \/ DamageDoc
    \/ Check(BOOLEAN)
    \/ SkipProcessing
    \/ Plan(AllResMaps)
    \/ Download(TRUE)
    \/ Patch(TRUE)
    \/ EndRun

Spec == Init /\ [][Next]_vars

\* the change detector over a leaf with a two-level subtree
DetectResMaps == {[l \in Leaves |-> CHOOSE r \in CatalogEntries : r.id = IntValue(1001)]}

InitDetect ==
    /\ \E tb \in Times :
          fs = [l \in Leaves |->
                  IF l \in DeepLeaves
                  THEN DeepLeaf(0, 0, 0, [n \in DeepNames |-> IF n = "a.atlas" THEN 0 ELSE tb])
                  ELSE NoLeaf]
    /\ doc = MissingDoc
    /\ base = NoTree
    /\ InitCommon

NextDetect ==
    \/ WriteFile(DeepLeaves)
    \/ RemoveFile(DeepLeaves)
    \/ CreateLeaf(DeepLeaves)
    \/ DeleteLeaf(DeepLeaves)
    \/ TouchLeaf(DeepLeaves)
    \/ MakeSub(DeepLeaves)
    \/ RemoveSub(DeepLeaves)
    \/ TouchSub(DeepLeaves)
    \/ WriteDeepFile(DeepLeaves)
    \/ RemoveDeepFile(DeepLeaves)
    \/ Check({TRUE})
    \/ SkipProcessing
    \/ Plan(DetectResMaps)
    \/ Download(FALSE)
    \/ Patch(FALSE)
    \/ EndRun

SpecDetect == InitDetect /\ [][NextDetect]_vars

TypeOK ==
    /\ pc \in {"idle", "checked", "download", "patch", "done"}
    /\ remote \in Versions
    /\ rc \in {-1, 0, 1}
    /\ edits \in 0..MaxEdits
    /\ StoredDirs(doc, ThisWs) = SnapshotOf(base)

(* ----------------------------- fuzzy lookup --------------------------- *)
\* most rows a reference table holds
MaxRows == 3

\* str.lower over the letters in use
Lower(c) ==
    CASE c = "H" -> "h"
      [] c = "M" -> "m"
      [] c = "A" -> "a"
      [] c = "B" -> "b"
      [] OTHER -> c

IsSpace(c) == c \in {" ", "\t"}

RECURSIVE CollapseSpaces(_)
\* re.sub(r"\s+", " ", s)
CollapseSpaces(s) ==
    IF s = <<>> THEN <<>>
    ELSE IF IsSpace(Head(s))
         THEN IF Len(s) > 1 /\ IsSpace(s[2])
              THEN CollapseSpaces(Tail(s))
              ELSE <<" ">> \o CollapseSpaces(Tail(s))
         ELSE <<Head(s)>> \o CollapseSpaces(Tail(s))

RECURSIVE StripLeft(_)
StripLeft(s) == IF s # <<>> /\ IsSpace(Head(s)) THEN StripLeft(Tail(s)) ELSE s

RECURSIVE StripRight(_)
StripRight(s) ==
    IF s # <<>> /\ IsSpace(s[Len(s)]) THEN StripRight(SubSeq(s, 1, Len(s) - 1)) ELSE s

\* str.strip
Strip(s) == StripRight(StripLeft(s))

\* _norm: collapse whitespace, strip, lower-case
Norm(s) == LET t == Strip(CollapseSpaces(s)) IN [i \in 1..Len(t) |-> Lower(t[i])]

\* a.startswith(b)
StartsWith(a, b) == Len(b) <= Len(a) /\ SubSeq(a, 1, Len(b)) = b

\* b in a
Contains(a, b) == \E i \in 0..(Len(a) - Len(b)) : SubSeq(a, i + 1, i + Len(b)) = b

\* match_score.one
One(a, b) ==
    IF a = b THEN 2
    ELSE IF StartsWith(a, b) \/ StartsWith(b, a) THEN 1
    ELSE IF Contains(b, a) \/ Contains(a, b) THEN 0
    ELSE -1

\* match_score: the name score and the costume score of a row
MatchScore(row, q) ==
    <<One(Norm(row.character), Norm(q.character)), One(Norm(row.costume), Norm(q.costume))>>

Survives(row, q) == MatchScore(row, q)[1] >= 0 /\ MatchScore(row, q)[2] >= 0

\* cand = (sc[0] + sc[1], max(sc), r)
Cand(row, q) ==
    LET sc == MatchScore(row, q)
    IN [none |-> FALSE, sum |-> sc[1] + sc[2], max |-> Max(sc[1], sc[2]), row |-> row]

NoBest == [none |-> TRUE]
Unorderable == [none |-> TRUE, error |-> "TypeError"]

\* cand > best on the tuples (sum, max, row): CharacterData defines equality
\* and no ordering, so two unequal rows behind equal keys cannot be compared
CandGreater(cand, best) ==
    IF cand.sum # best.sum THEN [raised |-> FALSE, greater |-> cand.sum > best.sum]
    ELSE IF cand.max # best.max THEN [raised |-> FALSE, greater |-> cand.max > best.max]
    ELSE IF cand.row = best.row THEN [raised |-> FALSE, greater |-> FALSE]
    ELSE [raised |-> TRUE, greater |-> FALSE]

RECURSIVE FindBest(_, _, _)
\* the candidate loop of get_idle / get_cutscene over the rows still to scan
FindBest(rows, q, best) ==
    IF rows = <<>> THEN best
    ELSE LET r == Head(rows)
         IN IF ~Survives(r, q) THEN FindBest(Tail(rows), q, best)
            ELSE IF best = NoBest THEN FindBest(Tail(rows), q, Cand(r, q))
            ELSE LET cmp == CandGreater(Cand(r, q), best)
                 IN IF cmp.raised THEN Unorderable
                    ELSE FindBest(Tail(rows), q, IF cmp.greater THEN Cand(r, q) ELSE best)

\* _maybe_to_int: an all-digit string (optionally signed) becomes an integer
MaybeToInt(s) ==
    LET t == Strip(s)
        signed == t # <<>> /\ Head(t) \in {"+", "-"}
        digits == IF signed THEN Tail(t) ELSE t
    IN IF digits # <<>> /\ \A i \in 1..Len(digits) : IsDigit(digits[i])
       THEN IntValue(IF signed /\ Head(t) = "-"
                     THEN 0 - DigitsToNat(digits, 0) ELSE DigitsToNat(digits, 0))
       ELSE StrValue(t)

\* get_idle (field = "idle") and get_cutscene (field = "cutscene") on parsed rows
GetValue(rows, q, field) ==
    IF rows = <<>> THEN [kind |-> "ValueError"]
    ELSE LET best == FindBest(rows, q, NoBest)
         IN IF best = Unorderable THEN [kind |-> "TypeError"]
            ELSE IF best = NoBest THEN [kind |-> "LookupError"]
            ELSE [kind |-> "value", row |-> best.row,
                  value |-> MaybeToInt(IF field = "idle" THEN best.row.idle
                                       ELSE best.row.cutscene)]

\* names of the reference table and the directory names asked for
CharacterNames == { <<"h","e","r","o">>, <<"H","e">>, <<"e","r">>, <<"M","a","g","e">> }
CostumeNames == { <<"a"," ","b">>, <<"A">> }
ValuePairs ==
    { [idle |-> <<"1","0","0","1">>, cutscene |-> <<"c","1">>],
      [idle |-> <<"c","2">>, cutscene |-> <<>>] }
Rows ==
    { [character |-> c, costume |-> s, idle |-> v.idle, cutscene |-> v.cutscene] :
        c \in CharacterNames, s \in CostumeNames, v \in ValuePairs }
Queries ==
    { [character |-> <<"H","e","r","o">>, costume |-> <<"A"," "," ","B">>],
      [character |-> <<"H","e">>, costume |-> <<"A">>] }
Tables == UNION {[1..n -> Rows] : n \in 0..MaxRows}

GetIdle ==
    /\ outcome = Pending
    /\ outcome' = GetValue(table, query, "idle")
    /\ UNCHANGED <<table, query>>
    /\ UNCHANGED <<runVars, catalogVars, matrixVars, planVars, patchVars, concVars, registryVars>>

GetCutscene ==
    /\ outcome = Pending
    /\ outcome' = GetValue(table, query, "cutscene")
    /\ UNCHANGED <<table, query>>
    /\ UNCHANGED <<runVars, catalogVars, matrixVars, planVars, patchVars, concVars, registryVars>>

InitLookup ==
    /\ table \in Tables
    /\ query \in Queries
    /\ outcome = Pending
    /\ RunIdle /\ CatalogIdle /\ MatrixIdle /\ PlanIdle /\ PatchIdle /\ ConcIdle /\ RegistryIdle

NextLookup == GetIdle \/ GetCutscene

SpecLookup == InitLookup /\ [][NextLookup]_vars

(* --------------------------- table matrix ----------------------------- *)
\* most physical rows of a table body, and the largest declared rowspan
MaxTableRows == 3
MaxSpan == 3

\* for col_index in range(20)
ColumnLimit == 20
\* a logical row is complete at 10 values
RowWidth == 10

\* physical cells a row may hold
CellCounts == {0, 1, 2}

NoCarry == [remaining |-> 0, value |-> <<>>]
EmptyTracker == [c \in 1..ColumnLimit |-> NoCarry]

\* variant: the carry lasts as many rows as the declared span
SeedCarry_FullSpan(rowspan, value) == [remaining |-> rowspan, value |-> value]

\* rowspan_tracker[col_index] = (int(rowspan) - 1, value)
SeedCarry(rowspan, value) == [remaining |-> rowspan - 1, value |-> value]

\* a column under an active carry: the entry afterwards
UseCarry(carry) ==
    IF carry.remaining > 1 THEN [carry EXCEPT !.remaining = carry.remaining - 1] ELSE NoCarry

RECURSIVE BuildRow(_, _, _, _, _)
\* the column loop over one physical row; every value is kept with the place
\* it came from: a physical cell (and which), a carry, or nothing
BuildRow(cells, col, cellIndex, tracker, rowData) ==
    IF col > ColumnLimit THEN [row |-> rowData, tracker |-> tracker]
    ELSE LET carried == tracker[col].remaining > 0
             hasCell == cellIndex < Len(cells)
             cell == cells[cellIndex + 1]
             entry == IF carried
                      THEN [value |-> tracker[col].value, origin |-> "carry", cell |-> 0]
                      ELSE IF hasCell
                           THEN [value |-> cell.text, origin |-> "cell", cell |-> cellIndex + 1]
                           ELSE [value |-> <<>>, origin |-> "blank", cell |-> 0]
             tracker2 == IF carried THEN [tracker EXCEPT ![col] = UseCarry(tracker[col])]
                         ELSE IF hasCell /\ cell.rowspan > 1
                              THEN [tracker EXCEPT ![col] = SeedCarry(cell.rowspan, cell.text)]
                              ELSE tracker
             cellIndex2 == IF ~carried /\ hasCell THEN cellIndex + 1 ELSE cellIndex
             rowData2 == Append(rowData, entry)
         IN IF Len(rowData2) >= RowWidth THEN [row |-> rowData2, tracker |-> tracker2]
            ELSE BuildRow(cells, col + 1, cellIndex2, tracker2, rowData2)

RECURSIVE BuildRows(_, _)
BuildRows(rows, tracker) ==
    IF rows = <<>> THEN <<>>
    ELSE LET built == BuildRow(Head(rows), 1, 0, tracker, <<>>)
         IN <<built.row>> \o BuildRows(Tail(rows), built.tracker)

\* _build_table_matrix
BuildTableMatrix(rows) == BuildRows(rows, EmptyTracker)

\* table bodies: every cell carries a text of its own, <<row, position>>
CellSpans == 1..MaxSpan
RowShapes == UNION {[1..k -> CellSpans] : k \in CellCounts}
TableBody(shape) ==
    [r \in 1..Len(shape) |->
        [k \in 1..Len(shape[r]) |-> [text |-> <<r, k>>, rowspan |-> shape[r][k]]]]

BuildMatrix ==
    /\ trs # <<>> /\ matrix = <<>>
    /\ matrix' = BuildTableMatrix(trs)
    /\ UNCHANGED trs
    /\ UNCHANGED <<runVars, lookupVars, catalogVars, planVars, patchVars, concVars, registryVars>>

InitMatrix ==
    /\ \E n \in 1..MaxTableRows : \E shape \in [1..n -> RowShapes] : trs = TableBody(shape)
    /\ matrix = <<>>
    /\ RunIdle /\ LookupIdle /\ CatalogIdle /\ PlanIdle /\ PatchIdle /\ ConcIdle /\ RegistryIdle

NextMatrix == BuildMatrix

SpecMatrix == InitMatrix /\ [][NextMatrix]_vars

(* --------------------------- planning pass ---------------------------- *)
\* how get_idle / get_cutscene can end for a leaf
LookupResults ==
    { [kind |-> "LookupError"], [kind |-> "ValueError"], [kind |-> "TypeError"],
      [kind |-> "value", value |-> StrValue(<<>>)],
      [kind |-> "value", value |-> IntValue(1001)],
      [kind |-> "value", value |-> IntValue(1002)] }

\* how get_resource_bundle_name_and_hash can end for an identifier
BundleOf(value) ==
    IF value = IntValue(1001)
    THEN [kind |-> "found", name |-> "common-x.bundle", hash |-> <<"a", "b", "c">>]
    ELSE [kind |-> "found", name |-> "common-y.bundle", hash |-> <<"d", "e", "f">>]
BundleResults(value) == { [kind |-> "absent"], [kind |-> "error"], BundleOf(value) }

\* `if not idle_or_cutscene_value`
Falsy(value) ==
    \/ value.type = "int" /\ value.n = 0
    \/ value.type = "str" /\ value.s = <<>>

\* the lookup and the catalog step as _create_replace_task sees them; the
\* catalog is only asked for a usable value
PlanInputs ==
    { [look |-> k, bundle |-> b] :
        k \in LookupResults,
        b \in {[kind |-> "absent"], [kind |-> "error"],
               BundleOf(IntValue(1001)), BundleOf(IntValue(1002))} }
UsablePlanInputs ==
    { i \in PlanInputs :
        IF i.look.kind = "value" /\ ~Falsy(i.look.value)
        THEN i.bundle \in BundleResults(i.look.value)
        ELSE i.bundle.kind = "absent" }

\* the resolution steps of _create_replace_task: what is left to build a task from
Resolution(input) ==
    IF input.look.kind # "value" THEN NoRes
    ELSE IF Falsy(input.look.value) THEN NoRes
    ELSE IF input.bundle.kind # "found" THEN NoRes
    ELSE [found |-> TRUE, id |-> input.look.value,
          name |-> input.bundle.name, hash |-> input.bundle.hash]

\* variant: an exception of the lookup or of the catalog leaves the function
TaskFor_Raising(l, input, shouldExecute) ==
    [raised |-> input.look.kind \in {"LookupError", "ValueError", "TypeError"}
                    \/ input.bundle.kind = "error",
     made |-> CreateReplaceTask(l, Resolution(input), shouldExecute)]

\* _create_replace_task with its try / except: a task or None, never an exception
TaskFor(l, input, shouldExecute) ==
    [raised |-> FALSE, made |-> CreateReplaceTask(l, Resolution(input), shouldExecute)]

Overrides ==
    {NoOverride} \cup
    {Override(SelectSeq(LeafOrder, LAMBDA l : l \in S)) : S \in SUBSET Leaves}

\* one turn of the directory loop of _build_replace_mapping; an exception
\* would end the pass in the outer except with the tasks made so far
PlanLeaf ==
    /\ pc = "planning"
    /\ cursor < Len(LeafOrder)
    /\ LET l == LeafOrder[cursor + 1]
           shouldExecute == IF Truthy(override) THEN l \in SeqRange(override.dirs) ELSE TRUE
           made == TaskFor(l, lookups[l], shouldExecute)
       IN IF ~fs[l].exists \/ IsDirectoryEmpty(fs[l])
          THEN tasks' = tasks /\ pc' = pc /\ cursor' = cursor + 1
          ELSE IF made.raised
               THEN tasks' = tasks /\ pc' = "planned" /\ cursor' = cursor
               ELSE tasks' = tasks \o made.made /\ pc' = pc /\ cursor' = cursor + 1
    /\ UNCHANGED <<lookups, override>>
    /\ UNCHANGED <<fs, remote, doc, summary, downloads, patches, rc, edits, since,
                   base, last, before, io>>
    /\ UNCHANGED <<lookupVars, catalogVars, matrixVars, patchVars, concVars, registryVars>>

\* the end of _build_replace_mapping: the co-target pass of an incremental plan
PlanFinish ==
    /\ pc = "planning"
    /\ cursor = Len(LeafOrder)
    /\ tasks' = IF Truthy(override) THEN PropagateCoTargets(tasks) ELSE tasks
    /\ pc' = "planned"
    /\ UNCHANGED <<lookups, override, cursor>>
    /\ UNCHANGED <<fs, remote, doc, summary, downloads, patches, rc, edits, since,
                   base, last, before, io>>
    /\ UNCHANGED <<lookupVars, catalogVars, matrixVars, patchVars, concVars, registryVars>>

InitPlan ==
    /\ lookups \in [Leaves -> UsablePlanInputs]
    /\ override \in Overrides
    /\ cursor = 0
    /\ fs = InitTree /\ remote = 1 /\ doc = MissingDoc /\ base = NoTree
    /\ pc = "planning" /\ summary = NoSummary
    /\ tasks = <<>> /\ downloads = <<>> /\ patches = <<>>
    /\ rc = -1 /\ edits = 0 /\ since = {}
    /\ last = NoLast /\ before = NoBefore /\ io = NoIO
    /\ LookupIdle /\ CatalogIdle /\ MatrixIdle /\ PatchIdle /\ ConcIdle /\ RegistryIdle

NextPlan == PlanLeaf \/ PlanFinish

SpecPlan == InitPlan /\ [][NextPlan]_vars

(* ------------------------- catalog resolution ------------------------- *)
\* most entries of the bundles array
MaxBundles == 3

\* bundleName values of the catalog document: a JSON number or a JSON string
BundleNames == { IntValue(1001), StrValue(<<"1","0","0","1">>), StrValue(<<"c","2">>) }
\* readableName and hash of an entry; the readable name may be empty
BundleBodies ==
    { [readableName |-> "common-x", hash |-> "abc"],
      [readableName |-> "common-y", hash |-> "def"],
      [readableName |-> "", hash |-> "abc"] }
Bundles ==
    { [bundleName |-> n, readableName |-> b.readableName, hash |-> b.hash] :
        n \in BundleNames, b \in BundleBodies }
\* identifiers as the lookup returns them: _maybe_to_int of a table value
Identifiers == { MaybeToInt(<<"1","0","0","1">>), MaybeToInt(<<"c","2">>) }

NoBundle == [kind |-> "absent"]
Found(entry) ==
    [kind |-> "found", name |-> <<entry.readableName, ".bundle">>, hash |-> entry.hash]

\* bundle.get("bundleName") == idle_value: equality of Python values, an
\* integer never equals a string
NameEquals(entry, id) == entry.bundleName = id

RECURSIVE ScanBundles(_, _)
\* the loop over catalog_data["bundles"]
ScanBundles(bundles, id) ==
    IF bundles = <<>> THEN NoBundle
    ELSE IF NameEquals(Head(bundles), id) /\ Head(bundles).readableName # ""
         THEN Found(Head(bundles))
         ELSE ScanBundles(Tail(bundles), id)

\* variant: the first entry with the identifier decides, named or not
GetResourceBundleNameAndHash_FirstDecides(cat, id) ==
    IF ~cat.present THEN [kind |-> "error"]
    ELSE LET hits == {i \in 1..Len(cat.bundles) : NameEquals(cat.bundles[i], id)}
             first == CHOOSE i \in hits : \A j \in hits : i <= j
         IN IF hits = {} THEN NoBundle
            ELSE IF cat.bundles[first].readableName # "" THEN Found(cat.bundles[first])
            ELSE NoBundle

\* get_resource_bundle_name_and_hash on a fetched catalog document
GetResourceBundleNameAndHash(cat, id) ==
    IF ~cat.present THEN [kind |-> "error"] ELSE ScanBundles(cat.bundles, id)

NoCatalog == [present |-> FALSE, bundles |-> <<>>]

ResolveBundle ==
    /\ resolved = Pending
    /\ resolved' = GetResourceBundleNameAndHash(catalog, ident)
    /\ UNCHANGED <<catalog, ident>>
    /\ UNCHANGED <<runVars, lookupVars, matrixVars, planVars, patchVars, concVars, registryVars>>

InitCatalog ==
    /\ \/ catalog = NoCatalog
       \/ \E n \in 0..MaxBundles : \E b \in [1..n -> Bundles] :
             catalog = [present |-> TRUE, bundles |-> b]
    /\ ident \in Identifiers
    /\ resolved = Pending
    /\ RunIdle /\ LookupIdle /\ MatrixIdle /\ PlanIdle /\ PatchIdle /\ ConcIdle /\ RegistryIdle

NextCatalog == ResolveBundle

SpecCatalog == InitCatalog /\ [][NextCatalog]_vars

(* ---------------------------- patch group ----------------------------- *)
\* replacement files of one Spine set and its descriptor
AssetFiles == <<"x.skel", "x.atlas", "x.png">>
Descriptor == "x.json"
SetFiles == SeqRange(AssetFiles) \cup {Descriptor}

\* where a file sits in a replacement directory: nowhere, at its top level,
\* or in a sub-directory of it
Locations == {"none", "root", "deep"}
SourceDirs == [loc : [SetFiles -> Locations], readable : BOOLEAN]
\* the replacement directories of the group, in discovery order
GroupDirs == [1..2 -> SourceDirs]

\* data_name.replace('.atlas', '.json').replace('.png', '.json')
JsonNameOf(n) == IF n \in {"x.atlas", "x.png"} THEN "x.json" ELSE n
\* data_name.replace('.atlas', '.skel').replace('.png', '.skel')
SkelNameOf(n) == IF n \in {"x.atlas", "x.png"} THEN "x.skel" ELSE n

\* os.path.exists(os.path.join(replace_root, name))
ExistsAtRoot(d, n) == d.loc[n] = "root"

\* _should_skip_file
ShouldSkipFile(n, d) == ExistsAtRoot(d, JsonNameOf(n)) /\ ~ExistsAtRoot(d, SkelNameOf(n))

\* _find_replacement_file: os.walk over the whole directory
FindReplacementFile(n, d) == d.loc[n] # "none"

\* _replace_text_asset / _replace_texture: false when the file cannot be applied
ApplyReplacement(n, d) == d.readable

RECURSIVE TryDirs(_, _, _, _)
\* the loop over replace_dirs for one asset: the directory that replaced it
\* (0: none) and the directories whose file was tried
TryDirs(n, dirs, i, tried) ==
    IF i > Len(dirs) THEN [source |-> 0, tried |-> tried]
    ELSE IF ShouldSkipFile(n, dirs[i]) THEN TryDirs(n, dirs, i + 1, tried)
    ELSE IF ~FindReplacementFile(n, dirs[i]) THEN TryDirs(n, dirs, i + 1, tried)
    ELSE IF ApplyReplacement(n, dirs[i]) THEN [source |-> i, tried |-> tried \cup {i}]
    ELSE TryDirs(n, dirs, i + 1, tried \cup {i})

\* variant: every directory is gone through, the last one that applies stays
ReplaceAsset_LastWins(n, dirs) ==
    LET tried == {i \in 1..Len(dirs) :
                     ~ShouldSkipFile(n, dirs[i]) /\ FindReplacementFile(n, dirs[i])}
        applied == {i \in tried : ApplyReplacement(n, dirs[i])}
    IN [source |-> IF applied = {} THEN 0 ELSE CHOOSE i \in applied : \A j \in applied : j <= i,
        tried |-> tried]

\* process_multiple_replace_dirs, for one object of the bundle
ReplaceAsset(n, dirs) == TryDirs(n, dirs, 1, {})

\* process_multiple_replace_dirs: the next object of the bundle
PatchAsset ==
    /\ sources # <<>>
    /\ Len(replaced) < Len(AssetFiles)
    /\ LET n == AssetFiles[Len(replaced) + 1]
           r == ReplaceAsset(n, sources)
       IN replaced' = Append(replaced, [name |-> n, source |-> r.source, tried |-> r.tried])
    /\ UNCHANGED sources
    /\ UNCHANGED <<runVars, lookupVars, catalogVars, matrixVars, planVars, concVars, registryVars>>

InitPatch ==
    /\ sources \in GroupDirs
    /\ replaced = <<>>
    /\ RunIdle /\ LookupIdle /\ CatalogIdle /\ MatrixIdle /\ PlanIdle /\ ConcIdle /\ RegistryIdle

NextPatch == PatchAsset

SpecPatch == InitPatch /\ [][NextPatch]_vars

(* -------------------------- shared containers ------------------------- *)
\* identifier cells of the character table, as get_idle / get_cutscene hand
\* them on, and the catalog entry of each identifier
IdentifierCells ==
    { <<"1", "0", "0", "1">>, <<" ", "0", "1", "0", "0", "1">>, <<"c", "1">>,
      <<"1", "0", "0", "2">>, <<"c", "2">> }
CatalogBody(id) ==
    CASE id = IntValue(1001) -> [name |-> "common-x.bundle", hash |-> <<"a", "b", "c">>]
      [] id = StrValue(<<"c", "1">>) -> [name |-> "common-x.bundle", hash |-> <<"a", "b", "c">>]
      [] id = IntValue(1002) -> [name |-> "common-y.bundle", hash |-> <<"d", "e", "f">>]
      [] OTHER -> [name |-> "common-y.bundle", hash |-> <<"a", "b", "c">>]
SharedEntries ==
    { [found |-> TRUE, id |-> MaybeToInt(c), name |-> CatalogBody(MaybeToInt(c)).name,
       hash |-> CatalogBody(MaybeToInt(c)).hash] : c \in IdentifierCells }

\* the two costumes of one character, and the leaf that stays out of the tree
SharedLeaves == {LeafOrder[1], LeafOrder[2]}
SharedResMaps ==
    { res \in [Leaves -> SharedEntries \cup {NoRes}] :
        \A l \in Leaves \ SharedLeaves : res[l] = NoRes }

\* both costumes hold files and a completed run has stored their snapshots
InitShared ==
    /\ fs = [l \in Leaves |-> IF l \in SharedLeaves THEN FileLeaf(0, 0) ELSE NoLeaf]
    /\ doc = AuthorsDoc([EmptyAuthors EXCEPT ![ThisWs] = MakeEntry(1, 1, SnapshotOf(fs))])
    /\ base = fs
    /\ remote = 1
    /\ pc = "idle"
    /\ summary = NoSummary
    /\ tasks = <<>> /\ downloads = <<>> /\ patches = <<>>
    /\ rc = -1
    /\ edits = 0
    /\ since = {}
    /\ last = NoLast
    /\ before = NoBefore
    /\ io = NoIO
    /\ LookupIdle /\ CatalogIdle /\ MatrixIdle /\ PlanIdle /\ PatchIdle /\ ConcIdle /\ RegistryIdle

NextShared ==
    \/ WriteFile(SharedLeaves)
    \/ Release
    \/ Check({TRUE})
    \/ SkipProcessing
    \/ Plan(SharedResMaps)
    \/ Download(FALSE)
    \/ Patch(FALSE)
    \/ EndRun

SpecShared == InitShared /\ [][NextShared]_vars

(* ------------------------- two runs, one file ------------------------- *)
\* two invocations of check_version_and_updates against the same data.json
Procs == {1, 2}

\* variant: a save merges the writer's own entry into the file as it is
WriteBack_OwnEntry(file, authors, w) ==
    AuthorsDoc([file.authors EXCEPT ![w] = authors[w]])

\* _save_data_json as a run sharing the file performs it: json.dump of the
\* writer's in-memory document over whatever the file holds
WriteBack(file, authors, w) == SaveDataJson(authors)

\* data = self._load_data_json() and the reads of the author's entry
CLoad(p) ==
    /\ runs[p].at = "start"
    /\ LET loaded == LoadDataJson(doc)
       IN /\ doc' = loaded.file
          /\ runs' = [runs EXCEPT ![p].at = "loaded",
                                  ![p].data = loaded.data,
                                  ![p].cur = loaded.data[runs[p].ws],
                                  ![p].loadedAt = Len(writeLog)]
    /\ UNCHANGED writeLog
    /\ UNCHANGED <<fs, remote, pc, summary, tasks, downloads, patches, rc, edits, since,
                   base, last, before, io>>
    /\ UNCHANGED <<lookupVars, catalogVars, matrixVars, planVars, patchVars, registryVars>>

\* the version fetch and the version branch with its save
CVersion(p) ==
    /\ runs[p].at = "loaded"
    /\ LET r == runs[p]
           versionChanged ==
               remote # EntryVersion(r.cur) \/ remote # EntryUpdateTime(r.cur)
           data1 == IF versionChanged THEN WithVersion(r.data, r.ws, remote) ELSE r.data
       IN /\ runs' = [runs EXCEPT ![p].at = "versioned", ![p].data = data1,
                                  ![p].versionChanged = versionChanged]
          /\ IF versionChanged
             THEN /\ doc' = WriteBack(doc, data1, r.ws)
                  /\ writeLog' = Append(writeLog, [by |-> p, authors |-> data1])
             ELSE UNCHANGED <<doc, writeLog>>
    /\ UNCHANGED <<fs, remote, pc, summary, tasks, downloads, patches, rc, edits, since,
                   base, last, before, io>>
    /\ UNCHANGED <<lookupVars, catalogVars, matrixVars, planVars, patchVars, registryVars>>

\* the directory scan, the comparison with the loaded entry and the final save
CSnapshots(p) ==
    /\ runs[p].at = "versioned"
    /\ LET r == runs[p]
           scanned == ScanReplaceDirectories(fs)
           existingMap == EntryDirs(r.cur)
           dirsToUpdate == SelectSeq(scanned, LAMBDA l : LeafNeedsUpdate(fs[l], existingMap[l]))
           deleted == \E l \in Leaves : existingMap[l].stored /\ ~fs[l].exists
           needsUpdate == r.versionChanged \/ Len(dirsToUpdate) > 0 \/ deleted
           data2 == WithDirs(r.data, r.ws, EntryVersion(r.cur), EntryUpdateTime(r.cur),
                             SnapshotOf(fs))
       IN /\ runs' = [runs EXCEPT ![p].at = "done",
                                  ![p].data = IF needsUpdate THEN data2 ELSE r.data]
          /\ IF needsUpdate
             THEN /\ doc' = WriteBack(doc, data2, r.ws)
                  /\ writeLog' = Append(writeLog, [by |-> p, authors |-> data2])
             ELSE UNCHANGED <<doc, writeLog>>
    /\ UNCHANGED <<fs, remote, pc, summary, tasks, downloads, patches, rc, edits, since,
                   base, last, before, io>>
    /\ UNCHANGED <<lookupVars, catalogVars, matrixVars, planVars, patchVars, registryVars>>

\* both workspaces have completed a run at version 1; each of the two runs
\* works for one of them
InitConcurrent ==
    /\ fs = InitTree
    /\ doc = AuthorsDoc([w \in Workspaces |-> MakeEntry(1, 1, SnapshotOf(InitTree))])
    /\ base = InitTree
    /\ remote \in Versions
    /\ \E ws \in [Procs -> Workspaces] :
          runs = [p \in Procs |->
                    [ws |-> ws[p], at |-> "start", data |-> EmptyAuthors, cur |-> NoEntry,
                     loadedAt |-> 0, versionChanged |-> FALSE]]
    /\ writeLog = <<>>
    /\ pc = "idle" /\ summary = NoSummary
    /\ tasks = <<>> /\ downloads = <<>> /\ patches = <<>>
    /\ rc = -1 /\ edits = 0 /\ since = {}
    /\ last = NoLast /\ before = NoBefore /\ io = NoIO
    /\ LookupIdle /\ CatalogIdle /\ MatrixIdle /\ PlanIdle /\ PatchIdle /\ RegistryIdle

NextConcurrent ==
    \/ \E p \in Procs : CLoad(p)
    \/ \E p \in Procs : CVersion(p)
    \/ \E p \in Procs : CSnapshots(p)
    \/ WriteFile({LeafOrder[1]})
    \/ Release

SpecConcurrent == InitConcurrent /\ [][NextConcurrent]_vars

(* ------------------------- workspace registry ------------------------- *)
WorkspaceNames == {"replace", "mods", "alt"}

\* workspace_exists
WorkspaceExists(list, n) == n \in SeqRange(list)

\* list.remove(n): the first occurrence goes
RemoveFirst(list, n) ==
    LET at == CHOOSE i \in 1..Len(list) : list[i] = n /\ \A j \in 1..(i - 1) : list[j] # n
    IN SubSeq(list, 1, at - 1) \o SubSeq(list, at + 1, Len(list))

\* add_mod_workspace
AddWorkspace(list, n) ==
    IF n \in SeqRange(list) THEN [ok |-> FALSE, list |-> list]
    ELSE [ok |-> TRUE, list |-> Append(list, n)]

\* variant: the last workspace can be removed too
RemoveWorkspace_NoGuard(list, n) ==
    IF n \notin SeqRange(list) THEN [ok |-> FALSE, list |-> list]
    ELSE [ok |-> TRUE, list |-> RemoveFirst(list, n)]

\* remove_mod_workspace
RemoveWorkspace(list, n) ==
    IF n \notin SeqRange(list) THEN [ok |-> FALSE, list |-> list]
    ELSE IF Len(list) <= 1 THEN [ok |-> FALSE, list |-> list]
    ELSE [ok |-> TRUE, list |-> RemoveFirst(list, n)]

\* BD2ModManager.delete_workspace(workspace_name, delete_files)
DeleteWorkspace(list, dirs, n, deleteFiles) ==
    LET r == RemoveWorkspace(list, n)
    IN IF ~r.ok THEN [ok |-> FALSE, list |-> list, dirs |-> dirs]
       ELSE [ok |-> TRUE, list |-> r.list,
             dirs |-> IF deleteFiles THEN dirs \ {n} ELSE dirs]

Called(op, n, result, confirmed) ==
    [op |-> op, name |-> n, result |-> result, confirmed |-> confirmed,
     before |-> workspaces, dirsBefore |-> wsDirs]

RegistryFrame ==
    UNCHANGED <<runVars, lookupVars, catalogVars, matrixVars, planVars, patchVars, concVars>>

AddModWorkspace ==
    \E n \in WorkspaceNames :
        LET r == AddWorkspace(workspaces, n)
        IN /\ workspaces' = r.list
           /\ ret' = Called("add", n, r.ok, FALSE)
           /\ UNCHANGED wsDirs
           /\ RegistryFrame

RemoveModWorkspace ==
    \E n \in WorkspaceNames :
        LET r == RemoveWorkspace(workspaces, n)
        IN /\ workspaces' = r.list
           /\ ret' = Called("remove", n, r.ok, FALSE)
           /\ UNCHANGED wsDirs
           /\ RegistryFrame

\* BD2ModManager.create_workspace: the registry entry, then the directories
CreateWorkspace ==
    \E n \in WorkspaceNames :
        LET r == AddWorkspace(workspaces, n)
        IN /\ workspaces' = r.list
           /\ wsDirs' = IF r.ok THEN wsDirs \cup {n} ELSE wsDirs
           /\ ret' = Called("create", n, r.ok, FALSE)
           /\ RegistryFrame

\* BD2Console.delete_mod_workspace: a listed workspace is chosen, the user
\* types the confirmation, manager.delete_workspace(selected_workspace) runs
DeleteModWorkspace ==
    \E n \in SeqRange(workspaces), confirm \in {"DELETE", "delete"} :
        LET r == IF confirm = "DELETE"
                 THEN DeleteWorkspace(workspaces, wsDirs, n, FALSE)
                 ELSE [ok |-> FALSE, list |-> workspaces, dirs |-> wsDirs]
        IN /\ workspaces' = r.list
           /\ wsDirs' = r.dirs
           /\ ret' = Called("delete", n, r.ok, confirm = "DELETE")
           /\ RegistryFrame

\* a duplicate-free, non-empty list of workspaces
NoDuplicates(list) == \A i, j \in 1..Len(list) : list[i] = list[j] => i = j
InitRegistry ==
    /\ \E k \in 1..Cardinality(WorkspaceNames) :
          \E list \in [1..k -> WorkspaceNames] : NoDuplicates(list) /\ workspaces = list
    /\ wsDirs \in SUBSET WorkspaceNames
    /\ ret = NoCall
    /\ RunIdle /\ LookupIdle /\ CatalogIdle /\ MatrixIdle /\ PlanIdle /\ PatchIdle /\ ConcIdle

NextRegistry == AddModWorkspace \/ RemoveModWorkspace \/ CreateWorkspace \/ DeleteModWorkspace

SpecRegistry == InitRegistry /\ [][NextRegistry]_vars

(* ----------------------------- parse_rows ----------------------------- *)
\* _get_valid_id_prefixes: the built-in list
ValidIdPrefixes ==
    <<<<"c", "h", "a", "r">>,
      <<"i", "l", "l", "u", "s", "t", "_", "d", "a", "t", "i", "n", "g">>,
      <<"i", "l", "l", "u", "s", "t", "_", "t", "a", "l", "k">>,
      <<"i", "l", "l", "u", "s", "t", "_", "s", "p", "e", "c", "i", "a", "l">>,
      <<"s", "p", "e", "c", "i", "a", "l", "i", "l", "l", "u", "s", "t">>,
      <<"s", "p", "e", "c", "i", "a", "l", "I", "l", "l", "u", "s", "t">>,
      <<"n", "p", "c">>,
      <<"s", "t", "o", "r", "y", "p", "a", "c", "k">>>>

\* _is_valid_id
IsValidId(testId, validPrefixes) ==
    /\ testId # <<>> /\ validPrefixes # <<>>
    /\ \E i \in 1..Len(validPrefixes) : StartsWith(Strip(testId), validPrefixes[i])

\* row_data[k] if len(row_data) > k else ""
RowCell(rowData, k) == IF Len(rowData) > k THEN rowData[k + 1].value ELSE <<>>

NoContext == [character |-> <<>>, charId |-> <<>>, rows |-> <<>>]

\* variant: a name row without identifier keeps the identifier it found
ParseStep_KeepId(st, rowData, at) ==
    IF Len(rowData) < 5 THEN st
    ELSE LET named == Strip(RowCell(rowData, 1)) # <<>>
             isId == IsValidId(RowCell(rowData, 2), ValidIdPrefixes)
             character == IF named THEN Strip(RowCell(rowData, 1)) ELSE st.character
             charId == IF isId THEN Strip(RowCell(rowData, 2)) ELSE st.charId
             shift == IF isId THEN 1 ELSE 0
             costume == Strip(RowCell(rowData, 2 + shift))
             rec == [character |-> character, costume |-> costume,
                     idle |-> Strip(RowCell(rowData, 3 + shift)),
                     cutscene |-> Strip(RowCell(rowData, 4 + shift)),
                     char_id |-> charId, row |-> at]
         IN [character |-> character, charId |-> charId,
             rows |-> IF character # <<>> /\ costume # <<>>
                      THEN Append(st.rows, rec) ELSE st.rows]

\* one turn of the loop over the matrix; `at` is the row's place in the
\* matrix, kept with the record it yields
ParseStep(st, rowData, at) ==
    IF Len(rowData) < 5 THEN st
    ELSE LET named == Strip(RowCell(rowData, 1)) # <<>>
             isId == IsValidId(RowCell(rowData, 2), ValidIdPrefixes)
             character == IF named THEN Strip(RowCell(rowData, 1)) ELSE st.character
             charId == IF isId THEN Strip(RowCell(rowData, 2))
                       ELSE IF named THEN <<>> ELSE st.charId
             shift == IF isId THEN 1 ELSE 0
             costume == Strip(RowCell(rowData, 2 + shift))
             rec == [character |-> character, costume |-> costume,
                     idle |-> Strip(RowCell(rowData, 3 + shift)),
                     cutscene |-> Strip(RowCell(rowData, 4 + shift)),
                     char_id |-> charId, row |-> at]
         IN [character |-> character, charId |-> charId,
             rows |-> IF character # <<>> /\ costume # <<>>
                      THEN Append(st.rows, rec) ELSE st.rows]

RECURSIVE ParseMatrix(_, _, _)
ParseMatrix(m, at, st) ==
    IF at > Len(m) THEN st.rows
    ELSE ParseMatrix(m, at + 1, ParseStep(st, m[at], at))

\* parse_rows for one table body (the rows after the two header rows)
ParseRows ==
    /\ trs # <<>> /\ matrix = <<>>
    /\ matrix' = BuildTableMatrix(trs)
    /\ table' = ParseMatrix(matrix', 1, NoContext)
    /\ UNCHANGED <<trs, query, outcome>>
    /\ UNCHANGED <<runVars, catalogVars, planVars, patchVars, concVars, registryVars>>

\* table rows: line number, name, then identifier or costume, and so on
MaxParseRows == 3
NameCells == {<<>>, <<"A">>, <<"B">>}
SecondCells == {<<"c", "h", "a", "r", "1">>, <<" ", "n", "p", "c", "2">>, <<"d", "r", "e", "s", "s">>}
ThirdCells == {<<>>, <<"g", "o", "w", "n">>}
PlainCell(text) == [text |-> text, rowspan |-> 1]
ParseRowsOf ==
    {<<PlainCell(<<"#">>), PlainCell(n), PlainCell(c2), PlainCell(c3),
       PlainCell(<<"i">>), PlainCell(<<"c">>)>> :
        n \in NameCells, c2 \in SecondCells, c3 \in ThirdCells}
    \cup {<<PlainCell(<<"#">>), [text |-> <<"A">>, rowspan |-> 2], PlainCell(<<"c", "h", "a", "r", "1">>),
            PlainCell(<<"g", "o", "w", "n">>), PlainCell(<<"i">>), PlainCell(<<"c">>)>>,
          <<PlainCell(<<"#">>), PlainCell(<<"d", "r", "e", "s", "s">>), PlainCell(<<"i">>),
            PlainCell(<<"c">>)>>}

InitParse ==
    /\ \E n \in 1..MaxParseRows : trs \in [1..n -> ParseRowsOf]
    /\ matrix = <<>>
    /\ LookupIdle
    /\ RunIdle /\ CatalogIdle /\ PlanIdle /\ PatchIdle /\ ConcIdle /\ RegistryIdle

NextParse == ParseRows

SpecParse == InitParse /\ [][NextParse]_vars

(* ------------------------ runs of two workspaces ---------------------- *)
\* the replacement tree of the other workspace
OtherTree == [InitTree EXCEPT ![LeafOrder[2]] = NoLeaf, ![LeafOrder[3]] = FileLeaf(1, 1)]
TreeOf(w) == IF w = ThisWs THEN fs ELSE OtherTree

\* check_version_and_updates of a manager made for workspace a; the workspace
\* and the file as it was before the call are kept in `runs`
CheckFor(a) ==
    /\ pc = "idle" /\ runs = <<>>
    /\ \E ok \in BOOLEAN :
          LET r == CheckResult(doc, TreeOf(a), remote, ok, a)
          IN /\ summary' = r.summary
             /\ doc' = r.file
             /\ io' = r.io
    /\ runs' = <<[ws |-> a, file |-> doc]>>
    /\ pc' = "checked"
    /\ UNCHANGED <<fs, remote, tasks, downloads, patches, rc, edits, since, base, last, before>>
    /\ UNCHANGED <<lookupVars, catalogVars, matrixVars, planVars, patchVars, writeLog, registryVars>>

\* the call has returned
Returned ==
    /\ pc = "checked" /\ runs # <<>>
    /\ pc' = "idle"
    /\ runs' = <<>>
    /\ summary' = NoSummary
    /\ io' = NoIO
    /\ UNCHANGED <<fs, remote, doc, tasks, downloads, patches, rc, edits, since, base, last, before>>
    /\ UNCHANGED <<lookupVars, catalogVars, matrixVars, planVars, patchVars, writeLog, registryVars>>

\* state files with entries of one or both workspaces, and the legacy form
FrameEntries ==
    {NoEntry} \cup {MakeEntry(v, v, dirs) : v \in Versions,
                                           dirs \in {EmptyDirs, SnapshotOf(InitTree),
                                                     SnapshotOf(OtherTree)}}
InitFrame ==
    /\ fs = InitTree
    /\ base = NoTree
    /\ \/ \E e1 \in FrameEntries, e2 \in FrameEntries :
             doc = AuthorsDoc([w \in Workspaces |-> IF w = ThisWs THEN e1 ELSE e2])
       \/ doc = FlatDoc(1, 1, SnapshotOf(InitTree))
       \/ doc = MissingDoc
    /\ InitCommon

NextFrame ==
    \/ \E a \in Workspaces : CheckFor(a)
    \/ Returned
    \/ WriteFile(Leaves)
    \/ DeleteLeaf(Leaves)
    \/ Release
    \/ DamageDoc

SpecFrame == InitFrame /\ [][NextFrame]_vars

(* ------------------------------ properties ---------------------------- *)
UpdateSet == SeqRange(summary.replace_dirs_to_update)
TaskIdx == 1..Len(tasks)
PatchIdx == 1..Len(patches)
Planned == pc \in {"download", "patch", "done"} /\ tasks # <<>>
Incremental == summary.ran /\ ~summary.version_changed
CheckStep == pc = "idle" /\ pc' = "checked"
ProgramStep == pc' # pc
HasFile(d) ==
    /\ d.exists
    /\ \/ \E n \in FileNames : d.files[n] # Absent
       \/ d.sub.exists /\ \E n \in DeepNames : d.sub.files[n] # Absent

\* C1: any two tasks of the planned list that share a target_dir have the same
\* should_execute, with or without an override leaf set.
C1_CoTargetsAgree ==
    \A i, j \in TaskIdx :
        tasks[i].target_dir = tasks[j].target_dir
            => tasks[i].should_execute = tasks[j].should_execute

\* an incremental plan where a leaf outside the update set shares its target
\* with a leaf of the update set, and is executable
C1_Witness ==
    /\ Planned /\ Incremental
    /\ \E i, j \in TaskIdx :
          /\ tasks[i].target_dir = tasks[j].target_dir
          /\ tasks[i].replace_dir \in UpdateSet
          /\ tasks[j].replace_dir \notin UpdateSet
          /\ tasks[j].should_execute

\* C2 (as claimed): a finished run without download or codec error whose plan
\* holds an executable task has patched every executable target exactly once.
C2_EveryExecutableTargetPatched ==
    (pc = "done" /\ rc = 0 /\ \E i \in TaskIdx : tasks[i].should_execute)
        => \A i \in TaskIdx :
              tasks[i].should_execute
                  => Cardinality({k \in PatchIdx :
                                     patches[k].target_dir = tasks[i].target_dir}) = 1

C4_VersionStoredBeforePatching ==
    [][ /\ (CheckStep /\ summary'.fetched
                /\ (remote # StoredVersion(doc, ThisWs) \/ remote # StoredUpdateTime(doc, ThisWs)))
            => /\ summary'.version_changed
               /\ StoredVersion(doc', ThisWs) = remote
               /\ StoredUpdateTime(doc', ThisWs) = remote
        /\ pc # "idle" => doc' = doc
        /\ ((downloads' # <<>> \/ patches' # <<>>) /\ summary'.version_changed)
            => StoredVersion(doc', ThisWs) = summary'.new_version
        /\ (CheckStep /\ last.ran /\ last.fetched /\ since \cap {"remote", "doc"} = {})
            => ~summary'.version_changed
      ]_vars

\* a full run that failed after the new version had been stored
C4_Witness ==
    /\ pc = "done" /\ rc = 1
    /\ summary.version_changed
    /\ summary.old_version # summary.new_version
    /\ StoredVersion(doc, ThisWs) = summary.new_version

\* C5 (as claimed): no step of a run lowers the stored version of a workspace.
C5_VersionNeverDecreases ==
    [][ ProgramStep =>
            \A w \in Workspaces : StoredVersion(doc', w) >= StoredVersion(doc, w) ]_vars

\* C5 (amended): the stored version changes only in check_version_and_updates,
\* for the workspace of the run, and becomes the remote version just fetched,
\* higher or lower; so it does not decrease as long as the remote version is
\* not below the stored one.
C5_VersionFollowsRemote ==
    [][ ProgramStep =>
            /\ StoredVersion(doc', OtherWs) = StoredVersion(doc, OtherWs)
            /\ \/ StoredVersion(doc', ThisWs) = StoredVersion(doc, ThisWs)
               \/ CheckStep /\ summary'.fetched
            /\ (CheckStep /\ summary'.fetched) => StoredVersion(doc', ThisWs) = remote
            /\ remote >= StoredVersion(doc, ThisWs)
                  => StoredVersion(doc', ThisWs) >= StoredVersion(doc, ThisWs)
      ]_vars

\* a check that stored a remote version lower than the one stored before
C5_Witness ==
    /\ pc = "checked"
    /\ summary.fetched /\ summary.version_changed
    /\ summary.new_version < summary.old_version
    /\ StoredVersion(doc, ThisWs) = summary.new_version

\* the three conditions of the diff rule for leaf l of the check just made
C6a(l) == Abs(GetDirectoryMtime(fs[l]) - before.dirs[l].mtime) > 1
C6b(l) ==
    \E c \in ChildNames :
        /\ GetSubfilesInfo(fs[l])[c] # Absent
        /\ \/ before.dirs[l].subfile[c] = Absent
           \/ Abs(GetSubfilesInfo(fs[l])[c] - before.dirs[l].subfile[c]) > 1
C6c(l) ==
    \E c \in ChildNames :
        before.dirs[l].subfile[c] # Absent /\ GetSubfilesInfo(fs[l])[c] = Absent
\* C6: a scanned leaf with a stored snapshot is in the update set exactly when
\* (a) its aggregate mtime is more than 1 s from the stored one, or (b) a present
\* child is not stored or is more than 1 s from its stored mtime, or (c) a stored
\* child is no longer present.
C6_DiffRule ==
    (pc = "checked" /\ summary.fetched)
        => \A l \in Leaves :
              (fs[l].exists /\ before.dirs[l].stored)
                  => (l \in UpdateSet <=> (C6a(l) \/ C6b(l) \/ C6c(l)))

\* a leaf reported only because a stored child disappeared
C6_Witness ==
    /\ pc = "checked" /\ summary.fetched
    /\ \E l \in Leaves :
          /\ fs[l].exists /\ before.dirs[l].stored
          /\ l \in UpdateSet
          /\ ~C6a(l) /\ ~C6b(l) /\ C6c(l)

\* regular files beneath a leaf: (deep?, name) -> mtime or Absent
FileSlots == ({FALSE} \X FileNames) \cup ({TRUE} \X DeepNames)
SlotTime(d, x) ==
    IF ~d.exists THEN Absent
    ELSE IF x[1] THEN (IF d.sub.exists THEN d.sub.files[x[2]] ELSE Absent)
    ELSE d.files[x[2]]
\* file x is in both trees and its mtime moved by more than 1 s / by at most 1 s
MovedFar(old, new, x) ==
    /\ SlotTime(old, x) # Absent /\ SlotTime(new, x) # Absent
    /\ Abs(SlotTime(new, x) - SlotTime(old, x)) > 1
MovedNear(old, new, x) ==
    /\ SlotTime(old, x) # Absent /\ SlotTime(new, x) # Absent
    /\ SlotTime(new, x) # SlotTime(old, x)
    /\ Abs(SlotTime(new, x) - SlotTime(old, x)) <= 1
\* the two trees of a leaf differ in the mtime of file x and in nothing else
OnlyChange(old, new, x) ==
    /\ old.exists /\ new.exists
    /\ old.own = new.own
    /\ old.sub.exists = new.sub.exists
    /\ old.sub.exists => old.sub.own = new.sub.own
    /\ \A y \in FileSlots \ {x} : SlotTime(old, y) = SlotTime(new, y)
\* a check of a leaf that has a stored snapshot, taken from before.tree
Rechecked(l) ==
    /\ pc = "checked" /\ summary.fetched
    /\ before.dirs[l].stored /\ before.tree[l].exists /\ fs[l].exists

\* C7 (as claimed): a file anywhere beneath a leaf whose mtime moved by more than
\* 1 s since the stored snapshot makes the next check report the leaf; a move of
\* at most 1 s does not.
C7_AnyFileMoveDetected ==
    \A l \in Leaves : Rechecked(l) =>
        \A x \in FileSlots :
            /\ MovedFar(before.tree[l], fs[l], x) => l \in UpdateSet
            /\ (MovedNear(before.tree[l], fs[l], x) /\ OnlyChange(before.tree[l], fs[l], x))
                  => l \notin UpdateSet

\* C7 (amended): a file directly inside the leaf whose mtime moved by more than
\* 1 s makes the next check report the leaf; a deeper file does so when the
\* aggregate mtime of the leaf or of the immediate sub-directory holding it
\* moved by more than 1 s (a deeper file whose move shifts those maxima by at
\* most 1 s, or not at all, goes unnoticed); a move of at most 1 s of one file
\* alone is not reported.
C7_ImmediateFileMoveDetected ==
    \A l \in Leaves : Rechecked(l) =>
        \A x \in FileSlots :
            /\ (MovedFar(before.tree[l], fs[l], x) /\ ~x[1]) => l \in UpdateSet
            /\ (/\ MovedFar(before.tree[l], fs[l], x) /\ x[1]
                /\ \/ Abs(SubMtime(fs[l].sub) - SubMtime(before.tree[l].sub)) > 1
                   \/ Abs(GetDirectoryMtime(fs[l]) - GetDirectoryMtime(before.tree[l])) > 1)
                  => l \in UpdateSet
            /\ (MovedNear(before.tree[l], fs[l], x) /\ OnlyChange(before.tree[l], fs[l], x))
                  => l \notin UpdateSet

\* a file directly inside the leaf, not its newest, moved by more than 1 s and
\* the leaf is reported although its aggregate mtime stayed put
C7_Witness ==
    \E l \in Leaves, n \in FileNames :
        /\ Rechecked(l)
        /\ MovedFar(before.tree[l], fs[l], <<FALSE, n>>)
        /\ GetDirectoryMtime(fs[l]) = GetDirectoryMtime(before.tree[l])
        /\ l \in UpdateSet

C9_NoTaskForEmptyLeaf ==
    \A i \in TaskIdx : HasFile(fs[tasks[i].replace_dir])

\* an incremental plan with tasks, where a leaf of the update set has no file
C9_Witness ==
    /\ Planned /\ Incremental
    /\ \E l \in UpdateSet : fs[l].exists /\ ~HasFile(fs[l])
    /\ \E i \in TaskIdx : tasks[i].should_execute

\* C10: a planned task is executable exactly when no override set was given
\* (full path), or its leaf is in the override set, or it shares its target_dir
\* with a task whose leaf is in the override set.
C10_ShouldExecuteExactly ==
    \A i \in TaskIdx :
        tasks[i].should_execute <=>
            \/ summary.version_changed
            \/ tasks[i].replace_dir \in UpdateSet
            \/ \E j \in TaskIdx :
                  /\ tasks[j].target_dir = tasks[i].target_dir
                  /\ tasks[j].replace_dir \in UpdateSet

\* an incremental plan holding a task of the update set, a task made executable
\* by its target and a task left out
C10_Witness ==
    /\ Planned /\ Incremental
    /\ \E i, j, k \in TaskIdx :
          /\ tasks[i].replace_dir \in UpdateSet /\ tasks[i].should_execute
          /\ tasks[j].replace_dir \notin UpdateSet /\ tasks[j].should_execute
          /\ tasks[j].target_dir = tasks[i].target_dir
          /\ ~tasks[k].should_execute

Survivors == {i \in 1..Len(table) : Survives(table[i], query)}
Exact(row) == MatchScore(row, query) = <<2, 2>>
\* row a ranks strictly above row b: larger sum, then larger maximum
Outranks(a, b) ==
    LET ca == Cand(a, query)
        cb == Cand(b, query)
    IN ca.sum > cb.sum \/ (ca.sum = cb.sum /\ ca.max > cb.max)
TopRanked == {i \in Survivors : \A j \in Survivors : ~Outranks(table[j], table[i])}
FirstTop == CHOOSE i \in TopRanked : \A j \in TopRanked : i <= j
LookupDone == outcome.kind # "pending"

\* C11: when at least one row survives, the lookup returns the row with the
\* largest sum of field scores, then the largest maximum, then the earliest
\* position, also when several distinct rows tie on both keys.
C11_RankedRowReturned ==
    (LookupDone /\ Survivors # {})
        => /\ outcome.kind = "value"
           /\ outcome.row = table[FirstTop]

\* C12: when the table holds a row whose normalized name and costume equal the
\* normalized query, the lookup selects such an exact row, whatever prefix or
\* substring rows the table holds and in whatever order.
C12_ExactRowSelected ==
    (LookupDone /\ \E i \in 1..Len(table) : Exact(table[i]))
        => /\ outcome.kind = "value"
           /\ Exact(outcome.row)


MatrixDone == matrix # <<>>
\* the physical cell behind a value of the grid
CellAt(r, c) == trs[r][matrix[r][c].cell]
\* value c of row r comes from a physical cell that declares a span over rows
Spanning(r, c) == matrix[r][c].origin = "cell" /\ CellAt(r, c).rowspan > 1

\* C13: a physical cell at column c of row r with rowspan N > 1 gives the same
\* value at column c of rows r+1 .. r+N-1 (as far as the table has rows), those
\* rows consume no physical cell for that column, and row r+N takes column c
\* from its own next unconsumed physical cell again (empty if it has none left).
C13_RowSpanReconstruction ==
    MatrixDone =>
        \A r \in 1..Len(matrix), c \in 1..RowWidth :
            Spanning(r, c) =>
                LET n == CellAt(r, c).rowspan
                IN /\ \A k \in 1..(n - 1) :
                          r + k <= Len(matrix)
                              => /\ matrix[r + k][c].value = matrix[r][c].value
                                 /\ matrix[r + k][c].origin = "carry"
                   /\ r + n <= Len(matrix)
                          => /\ matrix[r + n][c].origin # "carry"
                             /\ matrix[r + n][c].origin = "cell"
                                    <=> \E j \in 1..Len(trs[r + n]) :
                                           \A c2 \in 1..(c - 1) :
                                               matrix[r + n][c2].cell # j

\* a span of two rows at the first column, followed by a row that takes the
\* column from a cell of its own
C13_Witness ==
    /\ MatrixDone /\ Len(matrix) = 3
    /\ Spanning(1, 1) /\ CellAt(1, 1).rowspan = 2
    /\ matrix[2][1].origin = "carry" /\ matrix[2][2].origin = "cell"
    /\ matrix[3][1].origin = "cell"


\* the leaves the pass has made a task for
TaskLeaves == {tasks[i].replace_dir : i \in 1..Len(tasks)}
Resolves(l) == Resolution(lookups[l]).found
MissesBy(l, kind) == lookups[l].look.kind = kind

\* C14: a leaf whose lookup finds no candidate, raises a parse error, or whose
\* identifier has no catalog entry gets no task and stops nothing: the pass
\* goes through every leaf and the tasks are those of the leaves that resolve.
C14_MissMakesNoTask ==
    /\ \A i \in 1..cursor : LeafOrder[i] \in TaskLeaves <=> Resolves(LeafOrder[i])
    /\ pc = "planned"
          => /\ cursor = Len(LeafOrder)
             /\ tasks = BuildReplaceMapping(fs, override, [l \in Leaves |-> Resolution(lookups[l])])

\* a finished pass over a leaf without a candidate, a leaf whose identifier is
\* not in the catalog and a leaf that resolves
C14_Witness ==
    /\ pc = "planned"
    /\ MissesBy(LeafOrder[1], "LookupError")
    /\ lookups[LeafOrder[2]].look.kind = "value" /\ ~Falsy(lookups[LeafOrder[2]].look.value)
    /\ lookups[LeafOrder[2]].bundle.kind = "absent"
    /\ Resolves(LeafOrder[3])
    /\ TaskLeaves = {LeafOrder[3]}


ResolveDone == resolved.kind # "pending" /\ catalog.present
Hits == {i \in 1..Len(catalog.bundles) : NameEquals(catalog.bundles[i], ident)}
NamedHits == {i \in Hits : catalog.bundles[i].readableName # ""}
FirstOf(S) == CHOOSE i \in S : \A j \in S : i <= j

\* C15 as stated: the result is that of the first entry, in array order, whose
\* bundleName equals the identifier; absent only when no entry has that name.
C15_FirstMatchReturned ==
    ResolveDone =>
        IF Hits = {} THEN resolved = NoBundle
        ELSE resolved = Found(catalog.bundles[FirstOf(Hits)])

\* C15: the result is (readableName + ".bundle", hash) of the first entry, in
\* array order, whose bundleName equals the identifier and whose readableName
\* is not empty; entries with the identifier and no readable name are passed
\* over, and the result is absent when no entry has both.
C15_FirstNamedMatchReturned ==
    ResolveDone =>
        IF NamedHits = {} THEN resolved = NoBundle
        ELSE resolved = Found(catalog.bundles[FirstOf(NamedHits)])

\* an integer identifier whose first entry has no readable name and whose
\* later entry, behind an entry with the same digits as a string, is returned
C15_Witness ==
    /\ ResolveDone /\ ident.type = "int"
    /\ Hits # {} /\ NamedHits # {}
    /\ FirstOf(Hits) < FirstOf(NamedHits)
    /\ \E i \in 1..Len(catalog.bundles) :
          /\ i < FirstOf(NamedHits)
          /\ catalog.bundles[i].bundleName.type = "str"
          /\ catalog.bundles[i].readableName # ""
    /\ resolved = Found(catalog.bundles[FirstOf(NamedHits)])


\* directory i holds a replacement file for the asset and the skip rule of the
\* code lets it through
Eligible(n, i) == ~ShouldSkipFile(n, sources[i]) /\ FindReplacementFile(n, sources[i])
EligibleDirs(n) == {i \in 1..Len(sources) : Eligible(n, i)}
AppliedDirs(n) == {i \in EligibleDirs(n) : ApplyReplacement(n, sources[i])}

Incomplete(i) ==
    sources[i].loc[Descriptor] # "none" /\ sources[i].loc["x.skel"] = "none"

\* C17: no asset (skeleton, atlas or texture) is replaced from a directory
\* that holds the descriptor of its base name and not the skeleton, wherever
\* in the directory tree the files are; the other directories stay eligible.
C17_IncompleteSetNeverUsed ==
    \A k \in 1..Len(replaced) :
        \A i \in 1..Len(sources) : Incomplete(i) => replaced[k].source # i


\* the authors map a flat document migrates to
MigratedAuthors(d) ==
    [EmptyAuthors EXCEPT !["replace"] =
        [present |-> TRUE, version |-> d.flat.version, updateTime |-> d.flat.updateTime,
         dirs |-> d.flat.replaceDir]]

\* C18: loading a flat document hands back a per-workspace map whose entry
\* under "replace" has the flat version, updateTime and leaf list, and the
\* migrated form, without the flat fields, is in the state file when the load
\* returns (whatever the run does afterwards, a failed version fetch included).
C18_LegacyMigration ==
    (pc = "checked" /\ before.doc.shape = "flat") =>
        /\ io.migrations = 1
        /\ doc.shape = "authors" /\ doc.flat = NoFlat
        /\ summary.old_version = before.doc.flat.version
        /\ (~summary.fetched \/ ~summary.needs_update) => doc.authors = MigratedAuthors(before.doc)
        /\ (summary.fetched /\ ~summary.version_changed)
              => /\ doc.authors["replace"].version = before.doc.flat.version
                 /\ doc.authors["replace"].updateTime = before.doc.flat.updateTime
        /\ (summary.fetched /\ ~summary.needs_update)
              => summary.new_version = before.doc.flat.updateTime

\* a flat document was loaded by a run whose version fetch then failed
C18_Witness ==
    /\ pc = "checked"
    /\ before.doc.shape = "flat"
    /\ before.doc.flat.version = 1
    /\ \E l \in Leaves : before.doc.flat.replaceDir[l].stored
    /\ ~summary.fetched
    /\ doc = AuthorsDoc(MigratedAuthors(before.doc))

\* C19: a run whose version fetch failed ends with a non-zero return code,
\* without a patch and without a write of the state file.
C19_FetchFailureIsFatal ==
    (pc = "done" /\ summary.ran /\ ~summary.fetched) =>
        /\ rc = 1
        /\ patches = <<>>
        /\ io.writes = 0 /\ io.migrations = 0

\* C20 as stated: the state file is loaded once and written at most once per
\* run, the migration write aside.
C20_SingleStateWrite ==
    summary.ran => (io.loads = 1 /\ io.writes <= 1)

\* C20: in every run the state file is loaded once; apart from the migration
\* write it is written twice when the remote version changed (the version
\* branch saves, then the final save), once when only leaves changed, and not
\* at all when nothing changed or the fetch failed.
C20_StateWritesPerRun ==
    summary.ran =>
        /\ io.loads = 1
        /\ io.writes = (IF ~summary.fetched THEN 0
                        ELSE IF summary.version_changed THEN 2
                        ELSE IF summary.needs_update THEN 1
                        ELSE 0)

\* a finished run in which the version and a leaf both changed wrote twice
C20_Witness ==
    /\ pc = "done"
    /\ summary.ran /\ summary.fetched
    /\ summary.version_changed
    /\ summary.replace_dirs_to_update # <<>>
    /\ io.loads = 1 /\ io.writes = 2

\* C21: every target group a run patches has its source container among the
\* containers the download step of the same run went through, each distinct
\* container once, in the full path and in the incremental path alike.
C21_DownloadPrecedesPatch ==
    /\ \A i \in 1..Len(patches) : patches[i].bundle \in SeqRange(downloads)
    /\ \A i, j \in 1..Len(downloads) : downloads[i] = downloads[j] => i = j

\* the tasks of the two costumes in a finished incremental run whose update
\* set is the first costume only
TaskOf(l) == CHOOSE i \in TaskIdx : tasks[i].replace_dir = l
OnlyFirstCostumeChanged ==
    /\ pc = "done" /\ Incremental
    /\ summary.replace_dirs_to_update = <<LeafOrder[1]>>
    /\ \A l \in SharedLeaves : \E i \in TaskIdx : tasks[i].replace_dir = l
    /\ tasks[TaskOf(LeafOrder[1])].value = IntValue(1001)
    /\ \A l \in SharedLeaves :
          /\ tasks[TaskOf(l)].data_name = "common-x.bundle"
          /\ tasks[TaskOf(l)].hash_id = <<"a", "b", "c">>
BothAppliedInOneOpening ==
    /\ \A l \in SharedLeaves : tasks[TaskOf(l)].should_execute
    /\ Len(patches) = 1
    /\ patches[1].bundle = "common-x.bundle"
    /\ patches[1].replace_dirs = <<LeafOrder[1], LeafOrder[2]>>

C23_TargetKeyedByIdentifierAndHash ==
    /\ \A i, j \in TaskIdx :
          /\ (tasks[i].target_dir = tasks[j].target_dir)
                <=> (tasks[i].value = tasks[j].value /\ tasks[i].hash_id = tasks[j].hash_id)
          /\ tasks[i].target_dir = tasks[j].target_dir
                => tasks[i].data_name = tasks[j].data_name
    /\ \A k \in 1..Len(TargetGroups(tasks)) :
          \A i \in TaskIdx :
              (tasks[i].should_execute
                 /\ tasks[i].target_dir = TargetGroups(tasks)[k].target_dir)
                  => tasks[i].data_name = TargetGroups(tasks)[k].bundle

\* a finished run whose two tasks share the hash but neither the identifier nor
\* the container, and were patched as two targets
C23_Witness ==
    /\ pc = "done" /\ Len(tasks) = 2
    /\ tasks[1].hash_id = tasks[2].hash_id
    /\ tasks[1].value # tasks[2].value
    /\ tasks[1].data_name # tasks[2].data_name
    /\ tasks[1].target_dir # tasks[2].target_dir
    /\ Len(patches) = 2

\* positions of the writes of run p in the write log
WritesOf(p) == {i \in 1..Len(writeLog) : writeLog[i].by = p}
FirstWrite(p) == CHOOSE i \in WritesOf(p) : \A j \in WritesOf(p) : i <= j
LastWrite(p) == CHOOSE i \in WritesOf(p) : \A j \in WritesOf(p) : j <= i
BothDone == \A p \in Procs : runs # <<>> /\ runs[p].at = "done"
\* q loaded before p wrote anything and wrote after p's last write
Overlapped(p, q) ==
    /\ WritesOf(p) # {} /\ WritesOf(q) # {}
    /\ runs[q].loadedAt < FirstWrite(p)
    /\ LastWrite(q) > LastWrite(p)

\* C24: every save puts the writer's whole in-memory document in the file, so
\* of two runs for different workspaces the one that loaded before the other's
\* writes and saved after them wipes the other's update out (the entry is
\* back to what the late writer loaded), while a run that loads after the
\* other's last write keeps it.
C24_StaleRewriteLosesUpdate ==
    /\ writeLog # <<>> => doc.authors = writeLog[Len(writeLog)].authors
    /\ BothDone =>
          \A p, q \in Procs :
              (p # q /\ runs[p].ws # runs[q].ws) =>
                  /\ Overlapped(p, q)
                        => /\ doc.authors[runs[p].ws] # writeLog[LastWrite(p)].authors[runs[p].ws]
                           /\ doc.authors[runs[p].ws] = runs[q].data[runs[p].ws]
                           /\ EntryVersion(doc.authors[runs[p].ws]) = 1
                  /\ (WritesOf(p) # {} /\ runs[q].loadedAt >= LastWrite(p))
                        => doc.authors[runs[p].ws] = writeLog[LastWrite(p)].authors[runs[p].ws]

\* run 1 stored version 2 for its workspace and run 2, working for the other
\* workspace from a document loaded earlier, has put version 1 back
C24_Witness ==
    /\ BothDone
    /\ runs[1].ws # runs[2].ws
    /\ Overlapped(1, 2)
    /\ EntryVersion(writeLog[LastWrite(1)].authors[runs[1].ws]) = 2
    /\ EntryVersion(doc.authors[runs[1].ws]) = 1
    /\ remote = 2

\* C25: the workspace list stays duplicate-free and non-empty; add(n) returns
\* false and changes nothing when n is present, otherwise appends n and returns
\* true; remove(n) returns false and changes nothing when n is absent or the
\* only workspace; workspace_exists(n) is true exactly for the listed names.
C25_WorkspaceRegistry ==
    /\ NoDuplicates(workspaces) /\ workspaces # <<>>
    /\ \A n \in WorkspaceNames :
          WorkspaceExists(workspaces, n) <=> \E i \in 1..Len(workspaces) : workspaces[i] = n
    /\ ret.op = "add" =>
          IF \E i \in 1..Len(ret.before) : ret.before[i] = ret.name
          THEN ~ret.result /\ workspaces = ret.before
          ELSE /\ ret.result /\ workspaces = ret.before \o <<ret.name>>
               /\ WorkspaceExists(workspaces, ret.name)
    /\ ret.op = "remove" =>
          IF (\A i \in 1..Len(ret.before) : ret.before[i] # ret.name) \/ Len(ret.before) = 1
          THEN ~ret.result /\ workspaces = ret.before
          ELSE /\ ret.result
               /\ ~WorkspaceExists(workspaces, ret.name)
               /\ Len(workspaces) = Len(ret.before) - 1

\* the only workspace was asked to be removed and stayed
C25_Witness ==
    /\ ret.op = "remove"
    /\ ret.before = <<ret.name>>
    /\ ~ret.result
    /\ workspaces = <<ret.name>>

\* C26: after a confirmed deletion through the console that reports success,
\* the workspace is out of the configuration and its directory is gone.
C26_ConsoleDeleteRemovesDirectory ==
    (ret.op = "delete" /\ ret.confirmed /\ ret.result) =>
        /\ ~WorkspaceExists(workspaces, ret.name)
        /\ ret.name \notin wsDirs

\* C27: in the rebuilt grid of one table, a row with a non-empty name cell
\* starts a character context and a row without one continues it; a row whose
\* second column starts with a recognised identifier prefix starts an
\* identifier sub-context and reads costume, idle and cutscene one column
\* further right; every record has a non-empty character and costume, and its
\* char_id is the identifier of the latest identifier row of its character
\* context, empty when that context has none.
GridText(r, k) == Strip(RowCell(matrix[r], k))
NameRow(r) == GridText(r, 1) # <<>>
IdentifierRow(r) ==
    \E i \in 1..Len(ValidIdPrefixes) : StartsWith(GridText(r, 2), ValidIdPrefixes[i])
ContextStart(r) == SetMax({j \in 1..r : NameRow(j)}, 0)
LatestIdentifierRow(r) ==
    SetMax({j \in 1..r : j >= ContextStart(r) /\ IdentifierRow(j)}, 0)
NextCheckUpdateSets ==
    {CheckResult(doc, fs, v, TRUE, ThisWs).summary.replace_dirs_to_update : v \in Versions}
C28_SnapshotPersistedBeforePatching ==
    /\ (pc # "idle" /\ summary.fetched /\ summary.needs_update) =>
          /\ StoredDirs(doc, ThisWs) = SnapshotOf(fs)
          /\ pc = "checked" => downloads = <<>> /\ patches = <<>>
          /\ NextCheckUpdateSets = {<<>>}
    /\ (pc = "checked" /\ before.last.ran /\ before.last.fetched
        /\ before.since \subseteq {"remote"}) =>
          summary.replace_dirs_to_update = <<>>

\* a run that reported a changed leaf and whose patch failed: the leaf's
\* snapshot is stored and the next check would not report it
C28_Witness ==
    /\ pc = "done" /\ rc = 1
    /\ summary.fetched /\ summary.replace_dirs_to_update # <<>>
    /\ \E k \in 1..Len(patches) :
          /\ ~patches[k].ok
          /\ \E i \in 1..Len(patches[k].replace_dirs) : patches[k].replace_dirs[i] \in UpdateSet
    /\ StoredDirs(doc, ThisWs) = SnapshotOf(fs)
    /\ NextCheckUpdateSets = {<<>>}

\* C29: a run of check_version_and_updates for one workspace, its version
\* write and its snapshot write included, leaves the stored version, updateTime
\* and leaf snapshots of every other workspace as they were.
C29_OtherWorkspacesUntouched ==
    runs # <<>> =>
        \A b \in Workspaces \ {runs[1].ws} :
            /\ StoredVersion(doc, b) = StoredVersion(runs[1].file, b)
            /\ StoredUpdateTime(doc, b) = StoredUpdateTime(runs[1].file, b)
            /\ StoredDirs(doc, b) = StoredDirs(runs[1].file, b)
            /\ StoredEntry(doc, b).present = StoredEntry(runs[1].file, b).present

\* a check that wrote a new version and new snapshots for its own workspace
\* while the other workspace has a version and snapshots stored
C29_Witness ==
    /\ runs # <<>>
    /\ summary.fetched /\ summary.version_changed /\ summary.replace_dirs_to_update # <<>>
    /\ StoredEntry(doc, runs[1].ws) # StoredEntry(runs[1].file, runs[1].ws)
    /\ \E b \in Workspaces \ {runs[1].ws} :
          /\ StoredEntry(doc, b).present
          /\ StoredDirs(doc, b) # EmptyDirs
          /\ StoredDirs(doc, b) # StoredDirs(doc, runs[1].ws)
          /\ StoredVersion(doc, b) # StoredVersion(doc, runs[1].ws)

\* C30: when a leaf of the stored snapshot no longer exists, the check returns
\* needs_update = true, keeps the deleted leaf and every untouched leaf out of
\* the update set and stores the snapshot without the deleted leaf; with the
\* remote version unchanged and no leaf changed the run builds no task and
\* patches nothing; the update set holds scanned leaves only.
DeletedLeaves == {l \in Leaves : before.dirs[l].stored /\ ~fs[l].exists}
C30_WholeLeafDeletion ==
    /\ (pc = "checked" /\ summary.fetched /\ DeletedLeaves # {}) =>
          /\ summary.needs_update
          /\ UpdateSet \cap DeletedLeaves = {}
          /\ \A l \in Leaves :
                (fs[l].exists /\ before.dirs[l].stored /\ fs[l] = before.tree[l])
                    => l \notin UpdateSet
          /\ \A l \in DeletedLeaves : ~StoredDirs(doc, ThisWs)[l].stored
          /\ \A l \in Leaves : fs[l].exists => StoredDirs(doc, ThisWs)[l] = MakeSnapshot(fs[l])
    /\ (pc = "done" /\ summary.fetched /\ summary.needs_update
        /\ ~summary.version_changed /\ UpdateSet = {}) =>
          tasks = <<>> /\ downloads = <<>> /\ patches = <<>> /\ rc = 0
    /\ (pc # "idle" /\ summary.ran) => UpdateSet \subseteq SeqRange(ScanReplaceDirectories(fs))

\* a finished run whose only finding was a deleted leaf, with another leaf
\* still in the tree and in the stored snapshot
C30_Witness ==
    /\ pc = "done" /\ rc = 0
    /\ summary.fetched /\ summary.needs_update
    /\ ~summary.version_changed /\ UpdateSet = {}
    /\ tasks = <<>> /\ patches = <<>>
    /\ \E l \in Leaves : ~fs[l].exists /\ ~StoredDirs(doc, ThisWs)[l].stored
    /\ \E l \in Leaves : fs[l].exists /\ HasFile(fs[l]) /\ StoredDirs(doc, ThisWs)[l].stored

====
